---- MODULE Spec2Model ----
(***************************************************************************)
(* Model of apps/global-proxy/src/lib.rs: the cmux front-door proxy.       *)
(*                                                                         *)
(* Text that the code inspects character by character (hosts, subdomains,  *)
(* header values) is a sequence of one-character strings, so that split,   *)
(* join, strip_prefix, lowercase and u16 parsing are computed as the code  *)
(* computes them.  Text the code only passes around (paths, response       *)
(* texts, header names) is a TLA+ string.                                  *)
(***************************************************************************)
EXTENDS Integers, Sequences, FiniteSets, TLC

VARIABLES
    req,        \* the client's request: [path, method, headers]
    cfg,        \* AppState: morph_domain_suffix, workspace_domain_suffix
    pc,         \* where the request's task stands
    route,      \* the Route handle_request decoded (NoRoute if it decoded none)
    behavior,   \* the ProxyBehavior handle_request constructed (NoBehavior if none)
    target,     \* the Target handle_request resolved (NoTarget if none)
    upstream,   \* the upstream HTTP requests issued so far, in order
    first,      \* the first upstream response, kept while the fallback GET runs
    second,     \* the upstream response to the fallback GET (NoUpstream if none)
    resp,       \* the response returned to the client (NoResp before)
    via,        \* which return statement produced resp
    ws,         \* the spawned WebSocket task: [pc, url, headers]
    psub,       \* parse_route harness: the subdomain handed to parse_route
    proute,     \* parse_route harness: the Route it returned (NoRoute before)
    clientStream,   \* pump: what client_stream.next() has yet to yield
    backendStream,  \* pump: what backend_stream.next() has yet to yield
    fromClient,     \* pump: the messages received from the client, in order
    fromBackend,    \* pump: the messages received from the upstream, in order
    toBackend,      \* pump: the messages sent into backend_sink, in order
    toClient,       \* pump: the messages sent into client_sink, in order
    dirB,           \* pump: the to_backend future: [pc] or [pc, msg]
    dirC,           \* pump: the to_client future
    closedB,        \* pump: backend_sink.close() has been called
    closedC,        \* pump: client_sink.close() has been called
    result,         \* pump: "running", or how pump_websocket returned
    hbytes,     \* rewrite_html harness: the upstream body, as HTML tokens
    hskip,      \* rewrite_html harness: the skip_service_worker argument
    hout,       \* rewrite_html harness: the Ok(output) it returned (None before)
    conns,      \* server: each connection: "none", "serving", "bridged", "closed"
    shutdown,   \* server: ProxyHandle.shutdown, the sender: "armed" or "sent"
    task,       \* server: ProxyHandle.task, the server's task: "running", "finished"
    handle,     \* server: ProxyHandle::shutdown(): "idle", "awaiting", "returned"
    phost,      \* parse_cmux_host harness: the host handed to parse_cmux_host
    pparsed     \* parse_cmux_host harness: what it returned (NoParse before)

mainVars ==
    <<req, cfg, pc, route, behavior, target, upstream, first, second, resp, via, ws>>

routeVars == <<psub, proute>>

pumpVars ==
    <<clientStream, backendStream, fromClient, fromBackend, toBackend, toClient,
      dirB, dirC, closedB, closedC, result>>

htmlVars == <<hbytes, hskip, hout>>

serverVars == <<conns, shutdown, task, handle>>

hostVars == <<phost, pparsed>>

harnessVars == <<routeVars, pumpVars, htmlVars, serverVars, hostVars>>

vars == <<mainVars, routeVars, pumpVars, htmlVars, serverVars, hostVars>>

----------------------------------------------------------------------------
(* Option<T> *)

None == [some |-> FALSE]

Some(x) == [some |-> TRUE, v |-> x]

----------------------------------------------------------------------------
(* Text helpers (Rust str methods) *)

Digits == <<"0", "1", "2", "3", "4", "5", "6", "7", "8", "9">>

UpperChars == <<"A", "B", "C", "D", "E", "F", "G", "H", "I", "J", "K", "L", "M",
                "N", "O", "P", "Q", "R", "S", "T", "U", "V", "W", "X", "Y", "Z">>

LowerChars == <<"a", "b", "c", "d", "e", "f", "g", "h", "i", "j", "k", "l", "m",
                "n", "o", "p", "q", "r", "s", "t", "u", "v", "w", "x", "y", "z">>

IsDigit(c) == \E i \in 1..10 : Digits[i] = c

DigitVal(c) == (CHOOSE i \in 1..10 : Digits[i] = c) - 1

\* char::to_ascii_lowercase
LowerChar(c) ==
    IF \E i \in 1..26 : UpperChars[i] = c
    THEN LowerChars[CHOOSE i \in 1..26 : UpperChars[i] = c]
    ELSE c

\* str::to_ascii_lowercase
to_ascii_lowercase(s) == [i \in 1..Len(s) |-> LowerChar(s[i])]

\* str::eq_ignore_ascii_case
eq_ignore_ascii_case(a, b) == to_ascii_lowercase(a) = to_ascii_lowercase(b)

\* str::starts_with
StartsWith(s, p) == Len(s) >= Len(p) /\ SubSeq(s, 1, Len(p)) = p

\* str::ends_with
EndsWith(s, p) == Len(s) >= Len(p) /\ SubSeq(s, Len(s) - Len(p) + 1, Len(s)) = p

\* str::strip_prefix
strip_prefix(s, p) ==
    IF StartsWith(s, p) THEN Some(SubSeq(s, Len(p) + 1, Len(s))) ELSE None

\* str::strip_suffix
strip_suffix(s, p) ==
    IF EndsWith(s, p) THEN Some(SubSeq(s, 1, Len(s) - Len(p))) ELSE None

\* str::split(char): the segments between the separators, in order; a text
\* without separator is one segment, the empty text is one empty segment.
RECURSIVE Split(_, _)
Split(s, c) ==
    IF \A i \in 1..Len(s) : s[i] # c
    THEN <<s>>
    ELSE LET i == CHOOSE k \in 1..Len(s) :
                      s[k] = c /\ \A j \in 1..(k - 1) : s[j] # c
         IN  <<SubSeq(s, 1, i - 1)>> \o Split(SubSeq(s, i + 1, Len(s)), c)

\* [&str]::join(sep)
RECURSIVE Join(_, _)
Join(segs, c) ==
    IF Len(segs) = 0 THEN <<>>
    ELSE IF Len(segs) = 1 THEN segs[1]
    ELSE segs[1] \o <<c>> \o Join(Tail(segs), c)

\* the text of labels under test, joined by hyphens
RECURSIVE Dashed(_)
Dashed(segs) ==
    IF Len(segs) = 1 THEN segs[1]
    ELSE segs[1] \o <<"-">> \o Dashed(Tail(segs))

U16_MAX == 65535

\* The value of a run of decimal digits, saturating just above U16_MAX so
\* that an overlong run stays out of range.
RECURSIVE DigitsValue(_, _)
DigitsValue(s, acc) ==
    IF s = <<>> THEN acc
    ELSE IF acc > U16_MAX THEN acc
    ELSE DigitsValue(Tail(s), acc * 10 + DigitVal(s[1]))

\* str::parse::<u16>(): an optional '+', then at least one decimal digit,
\* value at most 65535.  Some(value) for Ok, None for Err.
parse_u16(s) ==
    LET d == IF s # <<>> /\ s[1] = "+" THEN Tail(s) ELSE s IN
    IF d = <<>> \/ \E i \in 1..Len(d) : ~IsDigit(d[i]) THEN None
    ELSE IF DigitsValue(d, 0) > U16_MAX THEN None
    ELSE Some(DigitsValue(d, 0))

\* u16::to_string(): canonical decimal digits
RECURSIVE to_string(_)
to_string(n) ==
    IF n < 10 THEN <<Digits[n + 1]>>
    ELSE to_string(n \div 10) \o <<Digits[(n % 10) + 1]>>

----------------------------------------------------------------------------
(* http::HeaderMap: a sequence of <<name, value>> entries.  Names are        *)
(* lowercase strings; a value is a sequence of strings: one character each  *)
(* where the code looks inside the value, one chunk where it does not.      *)

V(chunk) == <<chunk>>

NonAsciiChar == "\\xff"

\* HeaderValue::to_str: Err unless every byte is visible ASCII
to_str(value) ==
    IF \E i \in 1..Len(value) : value[i] = NonAsciiChar THEN None ELSE Some(value)

HasHeader(h, name) == \E i \in 1..Len(h) : h[i][1] = name

\* HeaderMap::get: the first value stored under the name
Get(h, name) ==
    IF HasHeader(h, name)
    THEN Some(h[CHOOSE i \in 1..Len(h) :
                    h[i][1] = name /\ \A j \in 1..(i - 1) : h[j][1] # name][2])
    ELSE None

\* HeaderMap::remove: drops every value stored under the name
RECURSIVE Remove(_, _)
Remove(h, name) ==
    IF h = <<>> THEN <<>>
    ELSE IF h[1][1] = name THEN Remove(Tail(h), name)
    ELSE <<h[1]>> \o Remove(Tail(h), name)

\* HeaderMap::insert: the name keeps one value, the new one
Insert(h, name, value) ==
    IF HasHeader(h, name)
    THEN LET i == CHOOSE k \in 1..Len(h) :
                      h[k][1] = name /\ \A j \in 1..(k - 1) : h[j][1] # name
         IN  SubSeq(h, 1, i - 1) \o <<<<name, value>>>>
                 \o Remove(SubSeq(h, i + 1, Len(h)), name)
    ELSE Append(h, <<name, value>>)

\* for (name, value) in src.iter() { dst.insert(name, value) }
RECURSIVE InsertAll(_, _)
InsertAll(dst, src) ==
    IF src = <<>> THEN dst
    ELSE InsertAll(Insert(dst, src[1][1], src[1][2]), Tail(src))

RECURSIVE RemoveAll(_, _)
RemoveAll(h, names) ==
    IF names = <<>> THEN h ELSE RemoveAll(Remove(h, names[1]), Tail(names))

----------------------------------------------------------------------------
(* Host parser *)

TrueWord == <<"t", "r", "u", "e">>

CmuxSh == <<"c", "m", "u", "x", ".", "s", "h">>

CmuxLocal == <<"c", "m", "u", "x", ".", "l", "o", "c", "a", "l">>

CmuxLocalhost == <<"c", "m", "u", "x", ".", "l", "o", "c", "a", "l", "h", "o", "s", "t">>

CmuxApp == <<"c", "m", "u", "x", ".", "a", "p", "p">>

\* str::rfind(':'): the index of the last ':' (0 when there is none)
RFindColon(s) ==
    IF \E i \in 1..Len(s) : s[i] = ":"
    THEN CHOOSE i \in 1..Len(s) : s[i] = ":" /\ \A j \in (i + 1)..Len(s) : s[j] # ":"
    ELSE 0

normalize_host(value) ==
    LET host == to_ascii_lowercase(value)
        idx  == RFindColon(host)
    IN  IF idx > 0 /\ \A j \in (idx + 1)..Len(host) : IsDigit(host[j])
        THEN SubSeq(host, 1, idx - 1)
        ELSE host

\* mutant of extract_host: the Host header is consulted first
extract_host_HostFirst(headers) ==
    LET h == Get(headers, "host") IN
    IF h.some /\ to_str(h.v).some
    THEN Some(normalize_host(h.v))
    ELSE LET forwarded == Get(headers, "x-forwarded-host") IN
         IF forwarded.some /\ to_str(forwarded.v).some
         THEN Some(normalize_host(forwarded.v))
         ELSE None

\* the header extract_host falls back to when x-forwarded-host gives nothing
FallbackHostHeader == "host"

extract_host(headers) ==
    LET forwarded == Get(headers, "x-forwarded-host") IN
    IF forwarded.some /\ to_str(forwarded.v).some
    THEN Some(normalize_host(forwarded.v))
    ELSE LET h == Get(headers, FallbackHostHeader) IN
         IF h.some /\ to_str(h.v).some THEN Some(normalize_host(h.v)) ELSE None

\* mutant of SubdomainOf: an empty prefix is returned as a subdomain
SubdomainOf_KeepEmpty(host, apex) == Some(strip_suffix(host, <<".">> \o apex).v)

\* one apex of parse_cmux_host: host.strip_suffix(".<apex>")
SubdomainOf(host, apex) ==
    LET prefix == strip_suffix(host, <<".">> \o apex).v IN
    IF prefix = <<>> THEN None ELSE Some(prefix)

\* Some(<<subdomain, apex>>) or None
parse_cmux_host(host) ==
    IF host = CmuxSh \/ host = CmuxLocal THEN Some(<<None, CmuxSh>>)
    ELSE IF EndsWith(host, <<".">> \o CmuxSh)
    THEN Some(<<SubdomainOf(host, CmuxSh), CmuxSh>>)
    ELSE IF host = CmuxLocalhost THEN Some(<<None, CmuxLocalhost>>)
    ELSE IF EndsWith(host, <<".">> \o CmuxLocalhost)
    THEN Some(<<SubdomainOf(host, CmuxLocalhost), CmuxLocalhost>>)
    ELSE IF host = CmuxApp THEN Some(<<None, CmuxApp>>)
    ELSE IF EndsWith(host, <<".">> \o CmuxApp)
    THEN Some(<<SubdomainOf(host, CmuxApp), CmuxApp>>)
    ELSE None

\* mutant of is_loop_header: the comparison minds the case
is_loop_header_CaseSensitive(headers) ==
    LET v == Get(headers, "x-cmux-proxied") IN
    IF v.some /\ to_str(v.v).some THEN v.v = TrueWord ELSE FALSE

\* is_loop_header: the first X-Cmux-Proxied value, if it is text, equals
\* "true" in any case
is_loop_header(headers) ==
    LET v == Get(headers, "x-cmux-proxied") IN
    IF v.some /\ to_str(v.v).some THEN eq_ignore_ascii_case(v.v, TrueWord) ELSE FALSE

----------------------------------------------------------------------------
(* Responses built locally *)

VSCODE_PORT == 39378

CSP_FRAME_ANCESTORS_PORT_39378 ==
    V("frame-ancestors 'self' https://cmux.local http://cmux.local https://www.cmux.sh https://cmux.sh https://www.cmux.dev https://cmux.dev http://localhost:5173;")

EmptyBody == [kind |-> "empty"]

text_response(status, body) ==
    [status  |-> status,
     headers |-> <<<<"content-type", V("text/plain; charset=utf-8")>>>>,
     body    |-> [kind |-> "text", text |-> body]]

json_response(status, value) ==
    [status  |-> status,
     headers |-> <<<<"content-type", V("application/json")>>>>,
     body    |-> [kind |-> "json", json |-> value]]

\* mutant of service_worker_response: no Cache-Control header
service_worker_response_Cacheable ==
    [status  |-> 200,
     headers |-> <<<<"content-type", <<"application/javascript">>>>>>,
     body    |-> [kind |-> "static", name |-> "SERVICE_WORKER_JS"]]

service_worker_response ==
    [status  |-> 200,
     headers |-> <<<<"content-type", V("application/javascript")>>,
                   <<"cache-control", V("no-cache")>>>>,
     body    |-> [kind |-> "static", name |-> "SERVICE_WORKER_JS"]]

add_cors_headers(h) ==
    InsertAll(h,
        << <<"access-control-allow-origin", V("*")>>,
           <<"access-control-allow-methods",
             V("GET, POST, PUT, DELETE, PATCH, OPTIONS, HEAD")>>,
           <<"access-control-allow-headers", V("*")>>,
           <<"access-control-expose-headers", V("*")>>,
           <<"access-control-allow-credentials", V("true")>>,
           <<"access-control-max-age", V("86400")>> >>)

CORS_HEADER_NAMES ==
    << "access-control-allow-origin", "access-control-allow-methods",
       "access-control-allow-headers", "access-control-expose-headers",
       "access-control-allow-credentials", "access-control-max-age",
       "access-control-allow-private-network" >>

strip_cors_headers(h) == RemoveAll(h, CORS_HEADER_NAMES)

strip_csp_headers(h) ==
    RemoveAll(h, << "content-security-policy", "content-security-policy-report-only",
                    "x-frame-options", "frame-options" >>)

cors_response(status) ==
    [status |-> status, headers |-> InsertAll(<<>>, add_cors_headers(<<>>)),
     body |-> EmptyBody]

\* Response::builder().status(NO_CONTENT).body(Body::empty())
no_content_response == [status |-> 204, headers |-> <<>>, body |-> EmptyBody]

----------------------------------------------------------------------------
(* Route decoder *)

Dash == "-"

PortPrefix == <<"p", "o", "r", "t", "-">>

CmuxPrefix == <<"c", "m", "u", "x", "-">>

BaseWord == <<"b", "a", "s", "e">>

InvalidRoute(msg) == [kind |-> "Invalid", resp |-> text_response(400, msg)]

\* mutant of PortMorphId: only the first segment after the port is kept
PortMorphId_FirstSegment(segments) == segments[2]

\* segments[1..].join("-") of the Port rule
PortMorphId(segments) == Join(Tail(segments), Dash)

\* the Port rule, on the text after "port-"
parse_port_rule(rest) ==
    LET segments == Split(rest, Dash) IN
    IF Len(segments) < 2 THEN InvalidRoute("Invalid cmux proxy subdomain")
    ELSE LET port == parse_u16(segments[1]) IN
         IF ~port.some THEN InvalidRoute("Invalid cmux proxy subdomain")
         ELSE LET morph_id == PortMorphId(segments) IN
              IF morph_id = <<>> THEN InvalidRoute("Invalid cmux proxy subdomain")
              ELSE [kind |-> "Port", port |-> port.v, morph_id |-> morph_id,
                    skip_service_worker |-> (port.v = VSCODE_PORT)]

\* mutant of ScopeHeader: "base" is matched in lowercase only
ScopeHeader_CaseSensitive(scope_segments) ==
    IF Len(scope_segments) = 0
       \/ (Len(scope_segments) = 1 /\ scope_segments[1] = BaseWord)
    THEN None
    ELSE Some(Join(scope_segments, Dash))

\* the scope rule shared by parse_route and scope_from_cmux_subdomain
ScopeHeader(scope_segments) ==
    IF Len(scope_segments) = 0
       \/ (Len(scope_segments) = 1
           /\ eq_ignore_ascii_case(scope_segments[1], BaseWord))
    THEN None
    ELSE Some(Join(scope_segments, Dash))

\* the Cmux rule, on the text after "cmux-"
parse_cmux_rule(rest) ==
    LET segments == Split(rest, Dash) IN
    IF Len(segments) < 2 THEN InvalidRoute("Invalid cmux proxy subdomain")
    ELSE LET morph_id == segments[1] IN
         IF morph_id = <<>>
         THEN InvalidRoute("Missing morph id in cmux proxy subdomain")
         ELSE LET port == parse_u16(segments[Len(segments)]) IN
              IF ~port.some
              THEN InvalidRoute("Invalid port in cmux proxy subdomain")
              ELSE [kind |-> "Cmux", port |-> port.v,
                    workspace_header |->
                        ScopeHeader(SubSeq(segments, 2, Len(segments) - 1)),
                    morph_id |-> morph_id]

\* the fallback (workspace) rule, on the whole subdomain
parse_workspace_rule(subdomain) ==
    LET parts == Split(subdomain, Dash) IN
    IF Len(parts) < 3 THEN InvalidRoute("Invalid cmux subdomain")
    ELSE LET port_segment    == parts[Len(parts) - 1]
             workspace_parts == SubSeq(parts, 1, Len(parts) - 2)
             vm_slug         == parts[Len(parts)]
         IN  IF Len(workspace_parts) = 0 THEN InvalidRoute("Invalid cmux subdomain")
             ELSE LET workspace == Join(workspace_parts, Dash)
                      port      == parse_u16(port_segment)
                  IN  IF ~port.some THEN InvalidRoute("Invalid port in subdomain")
                      ELSE IF vm_slug = <<>>
                      THEN InvalidRoute("Invalid cmux subdomain")
                      ELSE [kind |-> "Workspace", workspace |-> workspace,
                            port |-> port.v, vm_slug |-> vm_slug]

\* mutant of parse_route: a subdomain its prefix rule rejects is handed on to
\* the workspace rule
parse_route_FallThrough(subdomain) ==
    LET prefixed == IF StartsWith(subdomain, PortPrefix)
                    THEN parse_port_rule(strip_prefix(subdomain, PortPrefix).v)
                    ELSE IF StartsWith(subdomain, CmuxPrefix)
                    THEN parse_cmux_rule(strip_prefix(subdomain, CmuxPrefix).v)
                    ELSE InvalidRoute("Invalid cmux subdomain")
    IN  IF prefixed.kind = "Invalid" THEN parse_workspace_rule(subdomain)
        ELSE prefixed

parse_route(subdomain) ==
    IF StartsWith(subdomain, PortPrefix)
    THEN parse_port_rule(strip_prefix(subdomain, PortPrefix).v)
    ELSE IF StartsWith(subdomain, CmuxPrefix)
    THEN parse_cmux_rule(strip_prefix(subdomain, CmuxPrefix).v)
    ELSE parse_workspace_rule(subdomain)

----------------------------------------------------------------------------
(* Request dispatcher: handle_request up to the call of forward_request *)

NoRoute == [kind |-> "NoRoute"]

NoBehavior == [kind |-> "NoBehavior"]

NoTarget == [kind |-> "NoTarget"]

NoResp == [status |-> 0]

BackendPort(port) == [kind |-> "BackendPort", port |-> port]

Absolute(host) ==
    [kind |-> "Absolute", scheme |-> "https", host |-> host, port |-> None]

MorphVm == <<"-", "m", "o", "r", "p", "h", "v", "m", "-">>

PortTarget(c, rt) ==
    IF c.morph_domain_suffix.some
    THEN Absolute(<<"p", "o", "r", "t", "-">> \o to_string(rt.port) \o MorphVm
                    \o rt.morph_id \o c.morph_domain_suffix.v)
    ELSE BackendPort(rt.port)

\* mutant of CmuxTarget: the morph host is named after the route's own port
CmuxTarget_RoutePort(c, rt) ==
    IF c.morph_domain_suffix.some
    THEN Absolute(<<"p", "o", "r", "t", "-">> \o to_string(rt.port) \o MorphVm
                    \o rt.morph_id \o c.morph_domain_suffix.v)
    ELSE BackendPort(rt.port)

CmuxTarget(c, rt) ==
    IF c.morph_domain_suffix.some
    THEN Absolute(<<"p", "o", "r", "t", "-", "3", "9", "3", "7", "9">> \o MorphVm
                    \o rt.morph_id \o c.morph_domain_suffix.v)
    ELSE BackendPort(rt.port)

WorkspaceTarget(c, rt) ==
    IF c.workspace_domain_suffix.some
    THEN Absolute(rt.vm_slug \o c.workspace_domain_suffix.v)
    ELSE BackendPort(rt.port)

\* mutant of PortBehavior: the VSCode port gets no frame-ancestors policy
PortBehavior_NoFrameAncestors(rt) ==
    [skip_service_worker |-> rt.skip_service_worker,
     add_cors            |-> FALSE,
     strip_cors_headers  |-> rt.skip_service_worker,
     workspace_header    |-> None,
     port_header         |-> None,
     frame_ancestors     |-> None]

PortBehavior(rt) ==
    [skip_service_worker |-> rt.skip_service_worker,
     add_cors            |-> FALSE,
     strip_cors_headers  |-> rt.skip_service_worker,
     workspace_header    |-> None,
     port_header         |-> None,
     frame_ancestors     |-> IF rt.skip_service_worker
                             THEN Some(CSP_FRAME_ANCESTORS_PORT_39378) ELSE None]

\* mutant of CmuxBehavior: CORS headers are added on every port
CmuxBehavior_AlwaysAddCors(rt) ==
    [skip_service_worker |-> TRUE,
     add_cors            |-> TRUE,
     strip_cors_headers  |-> rt.port = VSCODE_PORT,
     workspace_header    |-> rt.workspace_header,
     port_header         |-> Some(to_string(rt.port)),
     frame_ancestors     |-> None]

CmuxBehavior(rt) ==
    LET is_vscode_route == rt.port = VSCODE_PORT IN
    [skip_service_worker |-> TRUE,
     add_cors            |-> ~is_vscode_route,
     strip_cors_headers  |-> is_vscode_route,
     workspace_header    |-> rt.workspace_header,
     port_header         |-> Some(to_string(rt.port)),
     frame_ancestors     |-> None]

WorkspaceBehavior(rt) ==
    [skip_service_worker |-> FALSE,
     add_cors            |-> FALSE,
     strip_cors_headers  |-> FALSE,
     workspace_header    |-> Some(rt.workspace),
     port_header         |-> Some(to_string(rt.port)),
     frame_ancestors     |-> None]

Local(rt, response) ==
    [kind |-> "local", route |-> rt, target |-> NoTarget, behavior |-> NoBehavior,
     resp |-> response]

Forward(rt, tgt, beh) ==
    [kind |-> "forward", route |-> rt, target |-> tgt, behavior |-> beh,
     resp |-> NoResp]

LoopDetected(rt) == Local(rt, text_response(508, "Loop detected in proxy"))

\* mutant of PortPreflight: the preflight is answered on every port
PortPreflight_AnyPort(r, rt) == r.method = "OPTIONS"

\* the preflight answered in the Port arm
PortPreflight(r, rt) == rt.port = VSCODE_PORT /\ r.method = "OPTIONS"

\* the preflight answered in the Cmux arm
CmuxPreflightResponse(rt) ==
    IF rt.port = VSCODE_PORT THEN no_content_response ELSE cors_response(204)

PortArm(r, c, rt) ==
    IF is_loop_header(r.headers) THEN LoopDetected(rt)
    ELSE IF PortPreflight(r, rt) THEN Local(rt, no_content_response)
    ELSE Forward(rt, PortTarget(c, rt), PortBehavior(rt))

CmuxArm(r, c, rt) ==
    IF is_loop_header(r.headers) THEN LoopDetected(rt)
    ELSE IF r.method = "OPTIONS" THEN Local(rt, CmuxPreflightResponse(rt))
    ELSE Forward(rt, CmuxTarget(c, rt), CmuxBehavior(rt))

WorkspaceArm(r, c, rt) ==
    IF is_loop_header(r.headers) THEN LoopDetected(rt)
    ELSE Forward(rt, WorkspaceTarget(c, rt), WorkspaceBehavior(rt))

\* match parse_route(subdomain) { ... }
RouteArm(r, c, rt) ==
    IF rt.kind = "Port" THEN PortArm(r, c, rt)
    ELSE IF rt.kind = "Cmux" THEN CmuxArm(r, c, rt)
    ELSE IF rt.kind = "Workspace" THEN WorkspaceArm(r, c, rt)
    ELSE Local(rt, rt.resp)

\* mutant of VersionFallsThrough: /version is answered on every host
VersionFallsThrough_Never(parsed) == FALSE

\* the match on parse_cmux_host under path "/version": only a platform host
\* with a subdomain falls through to routing
VersionFallsThrough(parsed) == parsed.some /\ parsed.v[1].some

\* handle_request, up to its return or its call of forward_request
handle_request(r, c) ==
    IF r.path = "/health" THEN Local(NoRoute, json_response(200, "health"))
    ELSE LET host == extract_host(r.headers) IN
         IF ~host.some
         THEN Local(NoRoute,
                    text_response(400, "Missing host header for proxied request"))
         ELSE LET parsed == parse_cmux_host(host.v) IN
              IF r.path = "/version" /\ ~VersionFallsThrough(parsed)
              THEN Local(NoRoute, json_response(200, "version"))
              ELSE IF ~parsed.some
              THEN Local(NoRoute, text_response(502, "Not a cmux domain"))
              ELSE IF ~parsed.v[1].some
              THEN Local(NoRoute, text_response(200, "cmux!"))
              ELSE IF r.path = "/proxy-sw.js"
              THEN Local(NoRoute, service_worker_response)
              ELSE RouteArm(r, c, parse_route(parsed.v[1].v))

----------------------------------------------------------------------------
(* HTML rewriter.  A body is a sequence of chunks of markup; its byte       *)
(* length is the sum of the chunks' lengths.                                *)

HEAD_SCRIPT ==
    "<script data-cmux-injected=\"true\">\nwindow.__cmuxLocation = window.location;\n</script>"

SERVICE_WORKER_SCRIPT ==
    "<script data-cmux-injected=\"true\">\n// __CMUX_NO_REWRITE__\nif ('serviceWorker' in navigator) {\n  navigator.serviceWorker.register('/proxy-sw.js', { scope: '/' }).catch(console.error);\n}\n</script>"

HeadOpenTags == {"<head>", "<HEAD lang=\"en\">"}

MetaCspTags ==
    {"<meta http-equiv=\"Content-Security-Policy\" content=\"default-src 'none'\">",
     "<META HTTP-EQUIV=\"content-security-policy\" content=\"x\">"}

RECURSIVE BodyLen(_)
BodyLen(toks) == IF toks = <<>> THEN 0 ELSE Len(toks[1]) + BodyLen(Tail(toks))

\* mutant of HeadInjection: the two prepends land in call order
HeadInjection_CallOrder(skip_service_worker) ==
    IF skip_service_worker THEN <<HEAD_SCRIPT>>
    ELSE <<HEAD_SCRIPT, SERVICE_WORKER_SCRIPT>>

\* what the "head" handler leaves right after the start tag: the second
\* prepend lands before the first
HeadInjection(skip_service_worker) ==
    IF skip_service_worker THEN <<HEAD_SCRIPT>>
    ELSE <<SERVICE_WORKER_SCRIPT, HEAD_SCRIPT>>

RECURSIVE rewrite_html(_, _)
rewrite_html(toks, skip_service_worker) ==
    IF toks = <<>> THEN <<>>
    ELSE LET rest == rewrite_html(Tail(toks), skip_service_worker) IN
         IF toks[1] \in HeadOpenTags
         THEN <<toks[1]>> \o HeadInjection(skip_service_worker) \o rest
         ELSE IF toks[1] \in MetaCspTags THEN rest
         ELSE <<toks[1]>> \o rest

----------------------------------------------------------------------------
(* Response transform *)

\* mutant of IgnoredPayloadHeaders: etag is let through
IgnoredPayloadHeaders_NoEtag ==
    {"content-length", "content-encoding", "transfer-encoding", "content-md5",
     "content-digest"}

IgnoredPayloadHeaders ==
    {"content-length", "content-encoding", "transfer-encoding", "content-md5",
     "content-digest", "etag"}

RECURSIVE sanitize_headers(_, _)
sanitize_headers(headers, strip_payload_headers) ==
    IF headers = <<>> THEN <<>>
    ELSE LET out == sanitize_headers(SubSeq(headers, 1, Len(headers) - 1),
                                     strip_payload_headers)
             e   == headers[Len(headers)]
         IN  IF strip_payload_headers /\ e[1] \in IgnoredPayloadHeaders
             THEN out
             ELSE Insert(out, e[1], e[2])

\* content_type.contains("text/html")
ContainsTextHtml(headers) ==
    LET ct == Get(headers, "content-type") IN
    ct.some /\ ct.v \in {V("text/html"), V("text/html; charset=utf-8")}

\* strip_cors / add_cors per behavior
ApplyCors(h, beh) ==
    IF beh.strip_cors_headers THEN strip_cors_headers(h)
    ELSE IF beh.add_cors THEN add_cors_headers(h)
    ELSE h

ApplyFrameAncestors(h, beh) ==
    IF beh.frame_ancestors.some
    THEN Insert(h, "content-security-policy", beh.frame_ancestors.v)
    ELSE h

\* mutant of TransformHeaders: the CSP strip runs after the injection
TransformHeaders_InjectFirst(headers, beh, strip_payload_headers) ==
    strip_csp_headers(
        ApplyFrameAncestors(
            ApplyCors(sanitize_headers(headers, strip_payload_headers), beh),
            beh))

\* the headers transform_response emits: sanitize, strip CSP, CORS, frame-ancestors
TransformHeaders(headers, beh, strip_payload_headers) ==
    ApplyFrameAncestors(
        ApplyCors(strip_csp_headers(sanitize_headers(headers, strip_payload_headers)),
                  beh),
        beh)

BytesBody(toks, readOk) == [kind |-> "bytes", toks |-> toks, readOk |-> readOk]

\* the Content-Length transform_response sets on rewritten HTML
RewrittenLength(body) == BodyLen(body)

\* An upstream response is [status, headers, body, readOk, rewriteOk]: readOk
\* says whether its body can be read to the end, rewriteOk whether the HTML
\* rewriter accepts it.
transform_response(response, beh) ==
    IF ContainsTextHtml(response.headers)
    THEN IF ~response.readOk
         THEN text_response(502, "Failed to read upstream body")
         ELSE IF ~response.rewriteOk
         THEN text_response(500, "HTML rewrite failed")
         ELSE LET body == rewrite_html(response.body, beh.skip_service_worker)
                  new_headers ==
                      Insert(TransformHeaders(response.headers, beh, TRUE),
                             "content-length", to_string(RewrittenLength(body)))
              IN  [status  |-> response.status,
                   headers |-> InsertAll(<<>>, new_headers),
                   body    |-> BytesBody(body, TRUE)]
    ELSE [status  |-> response.status,
          headers |-> InsertAll(<<>>, TransformHeaders(response.headers, beh, FALSE)),
          body    |-> BytesBody(response.body, response.readOk)]

----------------------------------------------------------------------------
(* HTTP forwarder *)

BACKEND_HOST == <<"1", "2", "7", ".", "0", ".", "0", ".", "1">>

BACKEND_SCHEME == "http"

TargetScheme(tgt) == IF tgt.kind = "BackendPort" THEN BACKEND_SCHEME ELSE tgt.scheme

\* authority: "{host}:{port}" or the host alone
Authority(tgt) ==
    IF tgt.kind = "BackendPort"
    THEN BACKEND_HOST \o <<":">> \o to_string(tgt.port)
    ELSE IF tgt.port.some THEN tgt.host \o <<":">> \o to_string(tgt.port.v)
    ELSE tgt.host

\* whether "{scheme}://{authority}{path_and_query}" parses as a Uri: of the
\* characters a decodable host can hold, the blank is the one a Uri rejects
UriParses(authority) ==
    authority # <<>> /\ \A i \in 1..Len(authority) : authority[i] # " "

\* mutant of OutboundHeaders: the client's internal headers are left in place
\* when the behavior names none
OutboundHeaders_KeepClient(headers, authority, beh) ==
    LET h1 == Insert(headers, "host", authority)
        h2 == Insert(h1, "x-cmux-proxied", TrueWord)
        h3 == IF beh.port_header.some
              THEN Insert(h2, "x-cmux-port-internal", beh.port_header.v)
              ELSE h2
    IN  IF beh.workspace_header.some
        THEN Insert(h3, "x-cmux-workspace-internal", beh.workspace_header.v)
        ELSE h3

\* the header mutations of forward_request
OutboundHeaders(headers, authority, beh) ==
    LET h1 == Insert(headers, "host", authority)
        h2 == Insert(h1, "x-cmux-proxied", TrueWord)
        h3 == IF beh.port_header.some
              THEN Insert(h2, "x-cmux-port-internal", beh.port_header.v)
              ELSE Remove(h2, "x-cmux-port-internal")
    IN  IF beh.workspace_header.some
        THEN Insert(h3, "x-cmux-workspace-internal", beh.workspace_header.v)
        ELSE Remove(h3, "x-cmux-workspace-internal")

\* the request forward_request hands to the upstream client
OutboundRequest(r, tgt, beh) ==
    [method  |-> r.method,
     uri     |-> [scheme |-> TargetScheme(tgt), authority |-> Authority(tgt),
                  path |-> r.path],
     headers |-> OutboundHeaders(r.headers, Authority(tgt), beh),
     body    |-> "client"]

\* the statuses of a HEAD response that trigger the GET fallback
HeadFallbackStatuses == {405, 501}

\* mutant of NeedsHeadFallback: the original method is not looked at
NeedsHeadFallback_AnyMethod(original_method, response) ==
    response.status \in HeadFallbackStatuses

NeedsHeadFallback(original_method, response) ==
    original_method = "HEAD" /\ response.status \in HeadFallbackStatuses

\* handle_head_method_not_allowed: the GET built from the HeadFallbackContext
FallbackGet(context) ==
    [method  |-> "GET",
     uri     |-> context.uri,
     headers |-> Remove(context.headers, "content-length"),
     body    |-> "empty"]

\* the length of a body once drained (None when reading it fails)
DrainedLength(body) ==
    IF body.kind = "bytes"
    THEN IF body.readOk THEN Some(BodyLen(body.toks)) ELSE None
    ELSE IF body.kind = "text" THEN Some(Len(body.text))
    ELSE Some(0)

\* mutant of build_head_response: the force_cors_headers flag is ignored
build_head_response_NoForce(status, headers, beh, body_len, force_cors_headers) ==
    LET h0 == Remove(Remove(sanitize_headers(headers, FALSE), "content-length"),
                     "transfer-encoding")
        h1 == ApplyFrameAncestors(ApplyCors(strip_csp_headers(h0), beh), beh)
        h2 == IF body_len.some
              THEN Insert(h1, "content-length", to_string(body_len.v)) ELSE h1
    IN  [status |-> status, headers |-> InsertAll(<<>>, h2), body |-> EmptyBody]

build_head_response(status, headers, beh, body_len, force_cors_headers) ==
    LET h0 == Remove(Remove(sanitize_headers(headers, FALSE), "content-length"),
                     "transfer-encoding")
        h1 == ApplyCors(strip_csp_headers(h0), beh)
        h2 == IF force_cors_headers /\ ~beh.strip_cors_headers
              THEN add_cors_headers(h1) ELSE h1
        h3 == ApplyFrameAncestors(h2, beh)
        h4 == IF body_len.some
              THEN Insert(h3, "content-length", to_string(body_len.v)) ELSE h3
    IN  [status |-> status, headers |-> InsertAll(<<>>, h4), body |-> EmptyBody]

\* mutant of HeadDrainBody: the upstream body is measured as it arrived
HeadDrainBody_Raw(response, beh) == BytesBody(response.body, response.readOk)

\* the body transform_head_response_from_get drains to learn the length
HeadDrainBody(response, beh) == transform_response(response, beh).body

\* Some(response) for Ok, None for Err
transform_head_response_from_get(response, beh) ==
    LET transformed == transform_response(response, beh)
        body_len    == DrainedLength(HeadDrainBody(response, beh))
    IN  IF ~body_len.some THEN None
        ELSE Some(build_head_response(transformed.status, transformed.headers, beh,
                                      body_len, TRUE))

----------------------------------------------------------------------------
(* WebSocket bridge: handle_websocket and the start of pump_websocket *)

\* hyper_tungstenite::is_upgrade_request
is_upgrade_request(headers) ==
    /\ Get(headers, "connection") = Some(V("upgrade"))
    /\ Get(headers, "upgrade") = Some(V("websocket"))

\* hyper_tungstenite::upgrade: Err without a handshake key
UpgradeAccepted(headers) == HasHeader(headers, "sec-websocket-key")

switching_protocols_response ==
    [status  |-> 101,
     headers |-> <<<<"connection", V("upgrade")>>, <<"upgrade", V("websocket")>>>>,
     body    |-> EmptyBody]

scope_from_cmux_subdomain(subdomain) ==
    IF ~StartsWith(subdomain, CmuxPrefix) THEN None
    ELSE LET segments == Split(strip_prefix(subdomain, CmuxPrefix).v, Dash) IN
         IF Len(segments) < 2 THEN None
         ELSE IF ~parse_u16(segments[Len(segments)]).some THEN None
         ELSE ScopeHeader(SubSeq(segments, 2, Len(segments) - 1))

derive_workspace_scope_from_headers(headers) ==
    LET host == extract_host(headers) IN
    IF ~host.some THEN None
    ELSE LET parsed == parse_cmux_host(host.v) IN
         IF ~parsed.some THEN None
         ELSE IF ~parsed.v[1].some THEN None
         ELSE scope_from_cmux_subdomain(parsed.v[1].v)

\* mutant of collect_forward_headers: the map starts from the client's own
\* headers instead of an empty one
collect_forward_headers_KeepClient(original, beh) ==
    LET h1 == IF beh.port_header.some
              THEN Insert(original, "x-cmux-port-internal", beh.port_header.v)
              ELSE original
        derived == derive_workspace_scope_from_headers(original)
        h2 == IF beh.workspace_header.some
              THEN Insert(h1, "x-cmux-workspace-internal", beh.workspace_header.v)
              ELSE IF derived.some
              THEN Insert(h1, "x-cmux-workspace-internal", derived.v)
              ELSE h1
    IN  Insert(h2, "x-cmux-proxied", TrueWord)

collect_forward_headers(original, beh) ==
    LET h1 == IF beh.port_header.some
              THEN Insert(<<>>, "x-cmux-port-internal", beh.port_header.v)
              ELSE <<>>
        derived == derive_workspace_scope_from_headers(original)
        h2 == IF beh.workspace_header.some
              THEN Insert(h1, "x-cmux-workspace-internal", beh.workspace_header.v)
              ELSE IF derived.some
              THEN Insert(h1, "x-cmux-workspace-internal", derived.v)
              ELSE h1
        h3 == Insert(h2, "x-cmux-proxied", TrueWord)
    IN  IF HasHeader(original, "user-agent")
        THEN Insert(h3, "user-agent", Get(original, "user-agent").v)
        ELSE h3

\* "https" | "wss" => "wss", _ => "ws"
WsScheme(scheme) == IF scheme \in {"https", "wss"} THEN "wss" ELSE "ws"

backend_url(r, tgt) ==
    [scheme |-> WsScheme(TargetScheme(tgt)), authority |-> Authority(tgt),
     path |-> r.path]

\* the handshake request pump_websocket dials with
DialRequest(url, headers) ==
    [url |-> url, headers |-> InsertAll(Insert(<<>>, "host", url.authority), headers)]

----------------------------------------------------------------------------
(* Specification Spec: one client request through handle_request,           *)
(* forward_request, the HEAD fallback and the WebSocket hand-over           *)

Cat(parts) == Join(parts, ".")

W_port == <<"p", "o", "r", "t">>

W_cmux == <<"c", "m", "u", "x">>

W_ab == <<"a", "b">>

W_ws == <<"w", "s">>

W_vm == <<"v", "m">>

W_39378 == <<"3", "9", "3", "7", "8">>

W_8080 == <<"8", "0", "8", "0">>

FalseWord == <<"f", "a", "l", "s", "e">>

ExampleCom == <<"e", "x", "a", "m", "p", "l", "e", ".", "c", "o", "m">>

H_PortVscode == Cat(<<Dashed(<<W_port, W_39378, W_ab>>), CmuxSh>>)

H_PortOther == Cat(<<Dashed(<<W_port, W_8080, W_ab, W_ab>>), CmuxSh>>)

H_PortBlank == Cat(<<Dashed(<<W_port, W_8080, <<"a", " ", "b">>>>), CmuxSh>>)

H_PortInvalid == Cat(<<Dashed(<<W_port, W_ab, <<"3", "0", "0", "0">>, W_vm>>), CmuxSh>>)

H_CmuxVscode == Cat(<<Dashed(<<W_cmux, W_ab, W_39378>>), CmuxApp>>)

H_CmuxBase ==
    Cat(<<Dashed(<<<<"C", "M", "U", "X">>, W_ab, <<"B", "a", "S", "E">>, W_8080>>),
          CmuxSh>>) \o <<":", "4", "4", "3">>

H_CmuxScoped == Cat(<<Dashed(<<W_cmux, W_ab, W_ws, W_vm, <<"+", "8", "0">>>>), CmuxLocalhost>>)

H_CmuxEmptyScope == Cat(<<Dashed(<<W_cmux, W_ab, <<>>, W_8080>>), CmuxSh>>)

H_Workspace == Cat(<<Dashed(<<W_ws, W_ab, W_8080, W_vm>>), CmuxSh>>)

H_WorkspaceVscode == Cat(<<Dashed(<<W_ws, W_39378, W_vm>>), CmuxSh>>)

H_NonAscii == <<NonAsciiChar>> \o CmuxSh

SubdomainHosts ==
    { H_PortVscode, H_PortOther, H_PortBlank, H_PortInvalid, H_CmuxVscode,
      H_CmuxBase, H_CmuxScoped, H_CmuxEmptyScope, H_Workspace, H_WorkspaceVscode }

\* the (X-Forwarded-Host, Host) pairs of the requests under test
HostChoices ==
    { [xfh |-> None, host |-> Some(h)] : h \in SubdomainHosts \cup {CmuxSh, ExampleCom} }
    \cup { [xfh |-> None, host |-> None],
           [xfh |-> Some(H_PortOther), host |-> Some(ExampleCom)],
           [xfh |-> Some(ExampleCom), host |-> Some(H_PortVscode)],
           [xfh |-> Some(H_NonAscii), host |-> Some(H_Workspace)],
           [xfh |-> Some(H_NonAscii), host |-> None] }

Paths == {"/health", "/version", "/proxy-sw.js", "/index.html"}

Methods == {"GET", "HEAD", "OPTIONS"}

\* the X-Cmux-Proxied values a request carries, in wire order
ProxiedChoices ==
    { <<>>, <<TrueWord>>, <<<<"T", "R", "U", "E">>>>, <<FalseWord, TrueWord>> }

\* no upgrade, an upgrade without handshake key, a complete upgrade
UpgradeChoices == {"none", "nokey", "full"}

RECURSIVE ProxiedEntries(_)
ProxiedEntries(vals) ==
    IF vals = <<>> THEN <<>>
    ELSE <<<<"x-cmux-proxied", vals[1]>>>> \o ProxiedEntries(Tail(vals))

RequestHeaders(hc, proxied, upg, withLength) ==
    (IF hc.host.some THEN <<<<"host", hc.host.v>>>> ELSE <<>>)
    \o (IF hc.xfh.some THEN <<<<"x-forwarded-host", hc.xfh.v>>>> ELSE <<>>)
    \o <<<<"user-agent", V("curl/8")>>>>
    \o ProxiedEntries(proxied)
    \o (IF withLength THEN <<<<"content-length", <<"0">>>>>> ELSE <<>>)
    \o (IF upg # "none"
        THEN <<<<"connection", V("upgrade")>>, <<"upgrade", V("websocket")>>>>
        ELSE <<>>)
    \o (IF upg = "full" THEN <<<<"sec-websocket-key", V("a2V5")>>>> ELSE <<>>)

\* a Content-Length of its own is brought by HEAD requests only
BodilessWithLength ==
    { [path |-> p, method |-> m, headers |-> RequestHeaders(hc, x, u, TRUE)] :
        p \in Paths, m \in Methods \ {"HEAD"}, hc \in HostChoices,
        x \in ProxiedChoices, u \in UpgradeChoices }

Requests ==
    { [path |-> p, method |-> m, headers |-> RequestHeaders(hc, x, u, l)] :
        p \in Paths, m \in Methods, hc \in HostChoices, x \in ProxiedChoices,
        u \in UpgradeChoices, l \in BOOLEAN } \ BodilessWithLength

MorphSuffix == <<".", "m", ".", "d", "e", "v">>

WorkspaceSuffix == <<".", "w", ".", "d", "e", "v">>

Configs ==
    { [morph_domain_suffix |-> None, workspace_domain_suffix |-> None],
      [morph_domain_suffix |-> Some(MorphSuffix), workspace_domain_suffix |-> None],
      [morph_domain_suffix |-> Some(MorphSuffix),
       workspace_domain_suffix |-> Some(WorkspaceSuffix)] }

HtmlBody ==
    << "<html>", "<head>",
       "<meta http-equiv=\"Content-Security-Policy\" content=\"default-src 'none'\">",
       "<title>t</title>", "</head>", "<body>hi</body>", "</html>" >>

JsBody == << "console.log(1);" >>

HtmlHeaders ==
    << <<"content-type", V("text/html; charset=utf-8")>>,
       <<"content-length", to_string(BodyLen(HtmlBody))>>,
       <<"content-encoding", V("identity")>>,
       <<"etag", V("\"abc\"")>>,
       <<"transfer-encoding", V("chunked")>>,
       <<"content-md5", V("Q2h1Y2sgSW50ZWdyaXR5IQ==")>>,
       <<"content-digest", V("sha-256=:abc=:")>>,
       <<"content-security-policy", V("default-src 'none'")>>,
       <<"x-frame-options", V("DENY")>>,
       <<"access-control-allow-origin", V("https://upstream.example")>>,
       <<"access-control-allow-private-network", V("true")>>,
       <<"set-cookie", V("a=1")>>,
       <<"set-cookie", V("b=2")>> >>

JsHeaders ==
    << <<"content-type", V("application/javascript")>>,
       <<"content-length", to_string(BodyLen(JsBody))>>,
       <<"transfer-encoding", V("chunked")>>,
       <<"content-security-policy-report-only", V("default-src 'self'")>>,
       <<"content-security-policy", V("script-src 'self'")>>,
       <<"frame-options", V("SAMEORIGIN")>>,
       <<"access-control-allow-origin", V("*")>> >>

UpstreamStatuses == {200, 405, 501}

UpstreamResponses ==
    { [status |-> st, headers |-> HtmlHeaders, body |-> HtmlBody,
       readOk |-> TRUE, rewriteOk |-> rw] :
        st \in UpstreamStatuses, rw \in BOOLEAN }
    \cup
    { [status |-> st, headers |-> HtmlHeaders, body |-> HtmlBody,
       readOk |-> FALSE, rewriteOk |-> TRUE] :
        st \in UpstreamStatuses }
    \cup
    { [status |-> st, headers |-> JsHeaders, body |-> JsBody,
       readOk |-> rd, rewriteOk |-> TRUE] :
        st \in UpstreamStatuses, rd \in BOOLEAN }

\* what the upstream answers the fallback GET with
FallbackResponses ==
    { r \in UpstreamResponses :
        r.status = 200 \/ (r.status = 405 /\ r.headers = JsHeaders /\ r.readOk) }

NoUpstream == [status |-> 0]

NoWs == [pc |-> "none"]

RouteIdle == psub = <<>> /\ proute = NoRoute

PumpIdle ==
    /\ clientStream = <<>>
    /\ backendStream = <<>>
    /\ fromClient = <<>>
    /\ fromBackend = <<>>
    /\ toBackend = <<>>
    /\ toClient = <<>>
    /\ dirB = [pc |-> "none"]
    /\ dirC = [pc |-> "none"]
    /\ closedB = FALSE
    /\ closedC = FALSE
    /\ result = "none"

HtmlIdle == hbytes = <<>> /\ hskip = FALSE /\ hout = None

NoParse == [kind |-> "NoParse"]

HostIdle == phost = <<>> /\ pparsed = NoParse

ServerIdle ==
    /\ conns = <<>>
    /\ shutdown = "none"
    /\ task = "none"
    /\ handle = "none"

Init ==
    /\ req \in Requests
    /\ cfg \in Configs
    /\ pc = "start"
    /\ route = NoRoute
    /\ behavior = NoBehavior
    /\ target = NoTarget
    /\ upstream = <<>>
    /\ first = NoUpstream
    /\ second = NoUpstream
    /\ resp = NoResp
    /\ via = "none"
    /\ ws = NoWs
    /\ RouteIdle
    /\ PumpIdle
    /\ HtmlIdle
    /\ ServerIdle
    /\ HostIdle

\* handle_request returns without calling forward_request
AnswerLocally ==
    /\ pc = "start"
    /\ \E o \in {handle_request(req, cfg)} :
        /\ o.kind = "local"
        /\ route' = o.route
        /\ resp' = o.resp
        /\ via' = "local"
        /\ pc' = "done"
        /\ UNCHANGED <<req, cfg, behavior, target, upstream, first, second, ws, harnessVars>>

\* handle_request calls forward_request, which builds the upstream request
\* and issues it (or fails to build its URI)
ForwardHttp ==
    /\ pc = "start"
    /\ \E o \in {handle_request(req, cfg)} :
        /\ o.kind = "forward"
        /\ ~is_upgrade_request(req.headers)
        /\ route' = o.route
        /\ behavior' = o.behavior
        /\ target' = o.target
        /\ IF UriParses(Authority(o.target))
           THEN /\ upstream' = <<OutboundRequest(req, o.target, o.behavior)>>
                /\ pc' = "await_upstream"
                /\ UNCHANGED <<resp, via>>
           ELSE /\ resp' = text_response(502, "Failed to build upstream URI")
                /\ via' = "uri_failed"
                /\ pc' = "done"
                /\ UNCHANGED upstream
        /\ UNCHANGED <<req, cfg, first, second, ws, harnessVars>>

\* handle_request calls forward_request, which hands an upgrade request to
\* handle_websocket: the client's upgrade is accepted and the pump task is
\* spawned, or the upgrade is refused
UpgradeWebSocket ==
    /\ pc = "start"
    /\ \E o \in {handle_request(req, cfg)} :
        /\ o.kind = "forward"
        /\ is_upgrade_request(req.headers)
        /\ route' = o.route
        /\ behavior' = o.behavior
        /\ target' = o.target
        /\ IF UpgradeAccepted(req.headers)
           THEN /\ resp' = switching_protocols_response
                /\ via' = "ws_upgrade"
                /\ ws' = [pc |-> "await_client",
                          dial |-> DialRequest(backend_url(req, o.target),
                                               collect_forward_headers(req.headers,
                                                                       o.behavior))]
           ELSE /\ resp' = text_response(500, "Failed to upgrade WebSocket connection")
                /\ via' = "ws_refused"
                /\ UNCHANGED ws
        /\ pc' = "done"
        /\ UNCHANGED <<req, cfg, upstream, first, second, harnessVars>>

\* state.client.request(req) fails
UpstreamFails ==
    /\ pc = "await_upstream"
    /\ resp' = text_response(502, "Upstream fetch failed")
    /\ via' = "fetch_failed"
    /\ pc' = "done"
    /\ UNCHANGED <<req, cfg, route, behavior, target, upstream, first, second, ws,
                   harnessVars>>

\* the upstream answers: the answer is transformed and returned, or, for a
\* HEAD the upstream does not implement, the fallback GET is issued
UpstreamResponds ==
    \E r \in UpstreamResponses :
        /\ pc = "await_upstream"
        /\ first' = r
        /\ IF NeedsHeadFallback(req.method, r)
           THEN /\ upstream' = Append(upstream,
                                      FallbackGet([headers |-> upstream[1].headers,
                                                   uri |-> upstream[1].uri]))
                /\ pc' = "await_fallback"
                /\ UNCHANGED <<resp, via>>
           ELSE /\ resp' = transform_response(r, behavior)
                /\ via' = "transform"
                /\ pc' = "done"
                /\ UNCHANGED upstream
        /\ UNCHANGED <<req, cfg, route, behavior, target, second, ws, harnessVars>>

\* the fallback GET fails: the original response goes through the transform
FallbackFails ==
    /\ pc = "await_fallback"
    /\ resp' = transform_response(first, behavior)
    /\ via' = "fallthrough"
    /\ pc' = "done"
    /\ UNCHANGED <<req, cfg, route, behavior, target, upstream, first, second, ws,
                   harnessVars>>

\* the fallback GET is answered: a HEAD response is built from it, or, when
\* its body cannot be drained, the original response goes through the transform
FallbackResponds ==
    \E r \in FallbackResponses :
        LET h == transform_head_response_from_get(r, behavior) IN
        /\ pc = "await_fallback"
        /\ second' = r
        /\ IF h.some
           THEN resp' = h.v /\ via' = "head_fallback"
           ELSE resp' = transform_response(first, behavior) /\ via' = "fallthrough"
        /\ pc' = "done"
        /\ UNCHANGED <<req, cfg, route, behavior, target, upstream, first, ws,
                       harnessVars>>

\* pump_websocket: websocket.await completes the client's upgrade, or fails
WsClientHandshake ==
    /\ ws.pc = "await_client"
    /\ \E ok \in BOOLEAN :
           ws' = [ws EXCEPT !.pc = IF ok THEN "dialing" ELSE "client_failed"]
    /\ UNCHANGED <<req, cfg, pc, route, behavior, target, upstream, first, second,
                   resp, via, harnessVars>>

\* pump_websocket: into_client_request and connect_async dial the upstream
WsDial ==
    /\ ws.pc = "dialing"
    /\ \E ok \in BOOLEAN :
           ws' = [ws EXCEPT !.pc = IF ok /\ UriParses(ws.dial.url.authority)
                                   THEN "bridged" ELSE "dial_failed"]
    /\ UNCHANGED <<req, cfg, pc, route, behavior, target, upstream, first, second,
                   resp, via, harnessVars>>

Next ==
    \/ AnswerLocally
    \/ ForwardHttp
    \/ UpgradeWebSocket
    \/ UpstreamFails
    \/ UpstreamResponds
    \/ FallbackFails
    \/ FallbackResponds
    \/ WsClientHandshake
    \/ WsDial

Spec == Init /\ [][Next]_vars

----------------------------------------------------------------------------
(* Claims about one request (checked under Spec) *)

ValidKinds == {"Port", "Cmux", "Workspace"}

\* the route the request's subdomain decodes to (NoRoute without subdomain)
RequestRoute ==
    LET host == extract_host(req.headers) IN
    IF ~host.some THEN NoRoute
    ELSE LET parsed == parse_cmux_host(host.v) IN
         IF ~parsed.some THEN NoRoute
         ELSE IF ~parsed.v[1].some THEN NoRoute
         ELSE parse_route(parsed.v[1].v)

\* some X-Cmux-Proxied value of the request reads "true" in any case
CarriesLoopValue ==
    \E i \in 1..Len(req.headers) :
        /\ req.headers[i][1] = "x-cmux-proxied"
        /\ to_ascii_lowercase(req.headers[i][2]) = <<"t", "r", "u", "e">>

\* the first X-Cmux-Proxied value of the request reads "true" in any case
FirstLoopValue ==
    \E i \in 1..Len(req.headers) :
        /\ req.headers[i][1] = "x-cmux-proxied"
        /\ \A j \in 1..(i - 1) : req.headers[j][1] # "x-cmux-proxied"
        /\ to_ascii_lowercase(req.headers[i][2]) = <<"t", "r", "u", "e">>

LoopAnswer ==
    /\ pc = "done"
    /\ resp.status = 508
    /\ resp.body = [kind |-> "text", text |-> "Loop detected in proxy"]
    /\ upstream = <<>>
    /\ ws = NoWs

\* the paths handle_request answers before it decodes the route
EarlyPaths == {"/health", "/proxy-sw.js"}

\* C1 as stated: every request whose subdomain decodes to a Port, Cmux or
\* Workspace route and that carries X-Cmux-Proxied: true (any case) is answered
\* 508 "Loop detected in proxy", with no upstream request and no WebSocket
\* upgrade or dial, whatever the method.
C1_Original ==
    (pc # "start" /\ RequestRoute.kind \in ValidKinds /\ CarriesLoopValue)
        => LoopAnswer

\* C1 as amended: the same for the requests whose path is neither /health nor
\* /proxy-sw.js and whose first X-Cmux-Proxied value is "true" (any case).
C1_LoopGuard ==
    (/\ pc # "start"
     /\ req.path \notin EarlyPaths
     /\ RequestRoute.kind \in ValidKinds
     /\ FirstLoopValue)
        => LoopAnswer

\* C1 witness: a WebSocket upgrade sent as OPTIONS to a Port route on 39378,
\* carrying X-Cmux-Proxied: TRUE, answered 508.
C1_Witness ==
    /\ LoopAnswer
    /\ req.method = "OPTIONS"
    /\ is_upgrade_request(req.headers)
    /\ route.kind = "Port"
    /\ route.port = 39378
    /\ Get(req.headers, "x-cmux-proxied") = Some(<<"T", "R", "U", "E">>)

\* C2 as stated: every request whose path is not /health and whose host is
\* present but no platform host is answered 502 "Not a cmux domain" with no
\* upstream request, on every path, /version included.
C2_NotCmuxDomain ==
    (/\ pc # "start"
     /\ req.path # "/health"
     /\ extract_host(req.headers).some
     /\ ~parse_cmux_host(extract_host(req.headers).v).some)
        => (/\ pc = "done"
            /\ resp.status = 502
            /\ resp.body = [kind |-> "text", text |-> "Not a cmux domain"]
            /\ upstream = <<>>)

\* the decimal text of a port
PortText(n) == to_string(n)

\* C5: in every ProxyBehavior handle_request constructs, add_cors and
\* strip_cors_headers are never both true, and the record is the row of the
\* behavior matrix for its route.
C5_BehaviorMatrix ==
    behavior # NoBehavior =>
        /\ ~(behavior.add_cors /\ behavior.strip_cors_headers)
        /\ route.kind \in ValidKinds
        /\ route.kind = "Port" =>
               /\ behavior.add_cors = FALSE
               /\ behavior.strip_cors_headers = (route.port = 39378)
               /\ behavior.skip_service_worker = (route.port = 39378)
        /\ route.kind = "Cmux" =>
               /\ behavior.skip_service_worker = TRUE
               /\ behavior.add_cors = (route.port # 39378)
               /\ behavior.strip_cors_headers = (route.port = 39378)
               /\ behavior.port_header = Some(PortText(route.port))
        /\ route.kind = "Workspace" =>
               /\ behavior.skip_service_worker = FALSE
               /\ behavior.add_cors = FALSE
               /\ behavior.strip_cors_headers = FALSE
               /\ behavior.workspace_header = Some(route.workspace)
               /\ behavior.port_header = Some(PortText(route.port))

\* C5 witness: the behavior of a Cmux route on port 39378 (CORS stripped, not added).
C5_Witness ==
    /\ behavior # NoBehavior
    /\ route.kind = "Cmux"
    /\ route.port = 39378
    /\ behavior.strip_cors_headers
    /\ ~behavior.add_cors

\* resp relays an upstream response (it is no error text built by the proxy)
Relayed ==
    /\ pc = "done"
    /\ \/ via = "head_fallback"
       \/ via \in {"transform", "fallthrough"} /\ resp.body.kind = "bytes"

CountHeader(h, name) == Cardinality({i \in 1..Len(h) : h[i][1] = name})

HasFrameAncestorsCsp ==
    /\ CountHeader(resp.headers, "content-security-policy") = 1
    /\ Get(resp.headers, "content-security-policy")
           = Some(<<"frame-ancestors 'self' https://cmux.local http://cmux.local https://www.cmux.sh https://cmux.sh https://www.cmux.dev https://cmux.dev http://localhost:5173;">>)

CorsNames ==
    { "access-control-allow-origin", "access-control-allow-methods",
      "access-control-allow-headers", "access-control-expose-headers",
      "access-control-allow-credentials", "access-control-max-age",
      "access-control-allow-private-network" }

NoCorsHeaders == \A i \in 1..Len(resp.headers) : resp.headers[i][1] \notin CorsNames

NoServiceWorkerScript ==
    resp.body.kind = "bytes" =>
        \A i \in 1..Len(resp.body.toks) : resp.body.toks[i] # SERVICE_WORKER_SCRIPT

\* C6 as stated: on every decoded route with port 39378, of any kind, every
\* relayed upstream response carries exactly the frame-ancestors CSP, no CORS
\* header and no service-worker script.
C6_Original ==
    (Relayed /\ route.kind \in ValidKinds /\ route.port = 39378)
        => (HasFrameAncestorsCsp /\ NoCorsHeaders /\ NoServiceWorkerScript)

\* C6 as amended: that holds on the Port routes with port 39378; on a Cmux
\* route with port 39378 the CORS headers are stripped and the service-worker
\* script is skipped, but no content-security-policy header is set.
C6_VscodeResponse ==
    /\ (Relayed /\ route.kind = "Port" /\ route.port = 39378)
           => (HasFrameAncestorsCsp /\ NoCorsHeaders /\ NoServiceWorkerScript)
    /\ (Relayed /\ route.kind = "Cmux" /\ route.port = 39378)
           => (/\ ~HasHeader(resp.headers, "content-security-policy")
               /\ NoCorsHeaders
               /\ NoServiceWorkerScript)

\* C6 witness: rewritten HTML relayed on a Port route with port 39378.
C6_Witness ==
    /\ Relayed
    /\ via = "transform"
    /\ route.kind = "Port"
    /\ route.port = 39378
    /\ ContainsTextHtml(first.headers)
    /\ HasHeader(first.headers, "access-control-allow-origin")

\* the six headers add_cors_headers sets, as the only headers
FullCorsSet ==
    /\ Len(resp.headers) = 6
    /\ Get(resp.headers, "access-control-allow-origin") = Some(<<"*">>)
    /\ Get(resp.headers, "access-control-allow-methods")
           = Some(<<"GET, POST, PUT, DELETE, PATCH, OPTIONS, HEAD">>)
    /\ Get(resp.headers, "access-control-allow-headers") = Some(<<"*">>)
    /\ Get(resp.headers, "access-control-expose-headers") = Some(<<"*">>)
    /\ Get(resp.headers, "access-control-allow-credentials") = Some(<<"true">>)
    /\ Get(resp.headers, "access-control-max-age") = Some(<<"86400">>)

\* answered by the proxy itself: 204, empty body, nothing sent upstream
AnsweredLocally204 ==
    /\ pc = "done"
    /\ via = "local"
    /\ resp.status = 204
    /\ resp.body = [kind |-> "empty"]
    /\ upstream = <<>>
    /\ ws = NoWs

\* sent on: an upstream request issued, or the WebSocket upgrade accepted
ForwardedUpstream == via # "local" /\ (upstream # <<>> \/ ws # NoWs)

\* not answered by handle_request itself but passed to forward_request, which
\* sends it on unless it cannot build the URI or refuses the upgrade
HandedToForwarder ==
    /\ via # "local"
    /\ behavior # NoBehavior
    /\ upstream # <<>> \/ ws # NoWs \/ via \in {"uri_failed", "ws_refused"}

PreflightRows(rt) ==
    /\ (rt.kind = "Port" /\ rt.port = 39378)
           => (AnsweredLocally204 /\ resp.headers = <<>>)
    /\ (rt.kind = "Cmux" /\ rt.port = 39378)
           => (AnsweredLocally204 /\ resp.headers = <<>>)
    /\ (rt.kind = "Cmux" /\ rt.port # 39378)
           => (AnsweredLocally204 /\ FullCorsSet)

\* C7 as stated: an OPTIONS request without loop header is answered locally
\* with 204 exactly on Port/39378 and Cmux/39378 (no access-control-* headers)
\* and Cmux/other port (the full CORS set); on a Port route with another port
\* and on a Workspace route it is never answered locally and is forwarded
\* upstream.
C7_Original ==
    (/\ pc # "start"
     /\ req.method = "OPTIONS"
     /\ ~CarriesLoopValue
     /\ RequestRoute.kind \in ValidKinds)
        => /\ PreflightRows(RequestRoute)
           /\ (\/ RequestRoute.kind = "Port" /\ RequestRoute.port # 39378
               \/ RequestRoute.kind = "Workspace")
                  => (~AnsweredLocally204 /\ ForwardedUpstream)

\* C7 as amended: the same for the requests whose path is neither /health nor
\* /proxy-sw.js and whose first X-Cmux-Proxied value is not "true"; on a Port
\* route with another port and on a Workspace route the request is passed to
\* forward_request, which sends it on unless the upstream URI cannot be built
\* or the WebSocket upgrade is refused.
C7_Preflight ==
    (/\ pc # "start"
     /\ req.method = "OPTIONS"
     /\ req.path \notin EarlyPaths
     /\ ~FirstLoopValue
     /\ RequestRoute.kind \in ValidKinds)
        => /\ PreflightRows(RequestRoute)
           /\ (\/ RequestRoute.kind = "Port" /\ RequestRoute.port # 39378
               \/ RequestRoute.kind = "Workspace")
                  => (~AnsweredLocally204 /\ HandedToForwarder)

\* C7 witness: a preflight to a Cmux route on another port, answered 204
\* with the CORS set.
C7_Witness ==
    /\ AnsweredLocally204
    /\ req.method = "OPTIONS"
    /\ route.kind = "Cmux"
    /\ route.port # 39378
    /\ FullCorsSet

\* a preflight to a Port route on another port, sent upstream as OPTIONS
C7_WitnessForwarded ==
    /\ req.method = "OPTIONS"
    /\ route.kind = "Port"
    /\ route.port # 39378
    /\ Len(upstream) = 1
    /\ upstream[1].method = "OPTIONS"

NotContentLength(e) == e[1] # "content-length"

\* the byte length of a response body
BodyBytes(body) ==
    IF body.kind = "bytes" THEN BodyLen(body.toks)
    ELSE IF body.kind = "text" THEN Len(body.text)
    ELSE 0

\* C8: a HEAD answered 405 or 501 is retried as a GET to the same URI with
\* the same headers less Content-Length and an empty body; when that GET is
\* answered and its transformed body drains, the client gets an empty body,
\* the status of the transformed GET response, and Content-Length equal to
\* the byte length of the body the transform emits for that GET.
C8_HeadFallback ==
    /\ (pc # "start" /\ req.method = "HEAD" /\ first.status \in {405, 501})
           => /\ Len(upstream) = 2
              /\ upstream[2].method = "GET"
              /\ upstream[2].uri = upstream[1].uri
              /\ upstream[2].headers = SelectSeq(upstream[1].headers, NotContentLength)
              /\ upstream[2].body = "empty"
    /\ (/\ pc = "done"
        /\ second # NoUpstream
        /\ LET t == transform_response(second, behavior)
           IN  t.body.kind = "bytes" => t.body.readOk)
           => LET t == transform_response(second, behavior) IN
              /\ via = "head_fallback"
              /\ resp.body = [kind |-> "empty"]
              /\ resp.status = t.status
              /\ CountHeader(resp.headers, "content-length") = 1
              /\ Get(resp.headers, "content-length") = Some(PortText(BodyBytes(t.body)))

\* C8 witness: a HEAD fallback whose GET returned HTML that was rewritten, on
\* a request that carried its own Content-Length.
C8_Witness ==
    /\ via = "head_fallback"
    /\ second.status = 200
    /\ ContainsTextHtml(second.headers)
    /\ second.rewriteOk
    /\ HasHeader(upstream[1].headers, "content-length")
    /\ Get(resp.headers, "content-length")
           = Some(PortText(BodyLen(rewrite_html(second.body,
                                                behavior.skip_service_worker))))

\* C9 as stated: when dialing the upstream WebSocket fails, the client gets
\* 500 "Failed to upgrade WebSocket connection" and no 101 is ever sent.
C9_DialFailure ==
    ws.pc = "dial_failed" =>
        /\ resp.status = 500
        /\ resp.body = [kind |-> "text",
                        text |-> "Failed to upgrade WebSocket connection"]

\* the response is what transform_response made of an HTML answer whose body
\* was read and rewritten
RewrittenHtml ==
    /\ pc = "done"
    /\ via \in {"transform", "fallthrough"}
    /\ ContainsTextHtml(first.headers)
    /\ first.readOk
    /\ first.rewriteOk

UpstreamPayloadNames ==
    {"content-encoding", "transfer-encoding", "content-md5", "content-digest", "etag"}

\* C12: a response rewritten from upstream HTML has one Content-Length, equal
\* to the byte length of the emitted body, carries none of content-encoding,
\* transfer-encoding, content-md5, content-digest, etag, and does not keep the
\* upstream's content-length value when the rewrite changed the length.
C12_HtmlContentLength ==
    RewrittenHtml =>
        /\ resp.status = first.status
        /\ resp.body.kind = "bytes"
        /\ CountHeader(resp.headers, "content-length") = 1
        /\ Get(resp.headers, "content-length")
               = Some(to_string(BodyLen(resp.body.toks)))
        /\ \A i \in 1..Len(resp.headers) :
               resp.headers[i][1] \notin UpstreamPayloadNames
        /\ BodyLen(resp.body.toks) # BodyLen(first.body)
               => \A i \in 1..Len(resp.headers) :
                      resp.headers[i] # <<"content-length",
                                          Get(first.headers, "content-length").v>>

\* C12 witness: upstream HTML that came with all six payload headers and whose
\* rewritten body is longer than the upstream body.
C12_Witness ==
    /\ RewrittenHtml
    /\ \A n \in UpstreamPayloadNames \cup {"content-length"} :
           HasHeader(first.headers, n)
    /\ BodyLen(resp.body.toks) > BodyLen(first.body)

\* the values a header map holds under a name, in order
ValuesOf(h, name) ==
    LET F[n \in 0..Len(h)] ==
            IF n = 0 THEN <<>>
            ELSE IF h[n][1] = name THEN Append(F[n - 1], h[n][2])
            ELSE F[n - 1]
    IN  F[Len(h)]

\* two header maps hold the same values under every name
SameHeaders(h1, h2) ==
    \A name \in {h1[i][1] : i \in 1..Len(h1)} \cup {h2[i][1] : i \in 1..Len(h2)} :
        ValuesOf(h1, name) = ValuesOf(h2, name)

\* two upstream requests alike but for the order of their header names
SameOutbound(a, b) ==
    /\ a.method = b.method
    /\ a.uri = b.uri
    /\ a.body = b.body
    /\ SameHeaders(a.headers, b.headers)

\* the Host headers a request is compared under: none, a foreign host, the
\* apex, a Workspace route's host
AltHosts == {None, Some(ExampleCom), Some(CmuxSh), Some(H_Workspace)}

\* request r with its Host header replaced by h (dropped when h is None)
WithHost(r, h) ==
    [r EXCEPT !.headers =
        (IF h.some THEN <<<<"host", h.v>>>> ELSE <<>>) \o Remove(r.headers, "host")]

\* the first value under a name, when it decodes as visible ASCII
Decodable(name) ==
    LET value == Get(req.headers, name) IN
    IF value.some /\ to_str(value.v).some THEN value ELSE None

MissingHost == text_response(400, "Missing host header for proxied request")

\* every dispatch decision taken for the request is the one taken for r2
SameDispatch(r2) ==
    \A o \in {handle_request(r2, cfg)} :
    /\ route = o.route
    /\ o.kind = "local" => (resp = o.resp /\ upstream = <<>> /\ ws = NoWs)
    /\ o.kind = "forward" =>
           /\ target = o.target
           /\ behavior = o.behavior
           /\ upstream # <<>> =>
                  \A out \in {OutboundRequest(r2, o.target, o.behavior)} :
                      SameOutbound(upstream[1], out)
           /\ ws # NoWs =>
                  ws.dial = DialRequest(backend_url(r2, o.target),
                                        collect_forward_headers(r2.headers, o.behavior))

\* C15: when X-Forwarded-Host is present and decodable, the host is its
\* normalized value and every dispatch decision (route, target, behavior,
\* local answer, upstream request, WebSocket dial) is the same whatever the
\* Host header; Host is used only when X-Forwarded-Host is absent or
\* undecodable; extract_host gives None exactly when neither decodes, and only
\* then is 400 "Missing host header for proxied request" answered.
C15_ForwardedHostPreferred ==
    pc # "start" =>
        \A xfh \in {Decodable("x-forwarded-host")}, hst \in {Decodable("host")},
           host \in {extract_host(req.headers)} :
            /\ xfh.some =>
                   /\ host = Some(normalize_host(xfh.v))
                   /\ \A r2 \in {WithHost(req, h) : h \in AltHosts} : SameDispatch(r2)
            /\ (~xfh.some /\ hst.some) => host = Some(normalize_host(hst.v))
            /\ (~xfh.some /\ ~hst.some) <=> (host = None)
            /\ (~xfh.some /\ ~hst.some /\ req.path # "/health") =>
                   (pc = "done" /\ resp = MissingHost /\ upstream = <<>> /\ ws = NoWs)
            /\ resp = MissingHost => (~xfh.some /\ ~hst.some)

\* C15 witness: X-Forwarded-Host names a Port route while Host names a
\* foreign domain, and the request is sent to the Port route's upstream.
C15_Witness ==
    /\ upstream # <<>>
    /\ Get(req.headers, "x-forwarded-host") = Some(H_PortOther)
    /\ Get(req.headers, "host") = Some(ExampleCom)
    /\ route.kind = "Port"
    /\ route.port = 8080

\* an undecodable X-Forwarded-Host: the Host header decides
C15_WitnessFallback ==
    /\ upstream # <<>>
    /\ Get(req.headers, "x-forwarded-host") = Some(H_NonAscii)
    /\ Get(req.headers, "host") = Some(H_Workspace)
    /\ route.kind = "Workspace"

\* neither header decodes: 400
C15_WitnessMissing ==
    /\ resp = MissingHost
    /\ HasHeader(req.headers, "x-forwarded-host")

VersionJson == json_response(200, "version")

\* Some(<<subdomain, apex>>) for the request's host, None without platform host
RequestPlatform ==
    LET host == extract_host(req.headers) IN
    IF host.some THEN parse_cmux_host(host.v) ELSE None

\* C16: /version on a platform host without subdomain is answered locally
\* with the 200 version JSON and nothing is sent upstream; on a platform host
\* with a subdomain the version JSON is never the answer and the request is
\* dispatched as any other path is: the route is decoded, the loop guard
\* applies, and what is forwarded keeps the path /version.
C16_Version ==
    (pc # "start" /\ req.path = "/version") =>
    \A platform \in {RequestPlatform} :
    platform.some =>
        /\ ~platform.v[1].some =>
               /\ pc = "done"
               /\ via = "local"
               /\ resp = VersionJson
               /\ upstream = <<>>
               /\ ws = NoWs
        /\ platform.v[1].some =>
               \A o \in {handle_request([req EXCEPT !.path = "/index.html"], cfg)} :
               /\ resp # VersionJson
               /\ route = parse_route(platform.v[1].v)
               /\ (route.kind \in ValidKinds /\ FirstLoopValue) => LoopAnswer
               /\ route = o.route
               /\ o.kind = "local" => (via = "local" /\ resp = o.resp)
               /\ o.kind = "forward" =>
                      /\ HandedToForwarder
                      /\ target = o.target
                      /\ behavior = o.behavior
                      /\ upstream # <<>> => upstream[1].uri.path = "/version"
                      /\ ws # NoWs => ws.dial.url.path = "/version"

\* C16 witness: /version on the apex, answered with the version JSON.
C16_Witness ==
    /\ req.path = "/version"
    /\ RequestPlatform = Some(<<None, CmuxSh>>)
    /\ resp = VersionJson

\* /version on a Workspace route's host, sent upstream
C16_WitnessForwarded ==
    /\ req.path = "/version"
    /\ route.kind = "Workspace"
    /\ Len(upstream) = 1
    /\ upstream[1].uri.path = "/version"
    /\ pc = "done"
    /\ resp.status = 200

\* the static service-worker script, answered by the proxy itself
ServiceWorkerAnswer ==
    /\ pc = "done"
    /\ via = "local"
    /\ resp.status = 200
    /\ ValuesOf(resp.headers, "content-type") = <<<<"application/javascript">>>>
    /\ ValuesOf(resp.headers, "cache-control") = <<<<"no-cache">>>>
    /\ resp.body = [kind |-> "static", name |-> "SERVICE_WORKER_JS"]
    /\ route = NoRoute
    /\ upstream = <<>>
    /\ ws = NoWs

\* C17: on a platform host with a subdomain, /proxy-sw.js is answered 200
\* with Content-Type application/javascript, Cache-Control no-cache and the
\* static script, with no route decoded and nothing sent upstream, whatever the
\* subdomain decodes to and whatever X-Cmux-Proxied says; on a platform host
\* without subdomain the answer is 200 "cmux!".
C17_ServiceWorkerAsset ==
    (pc # "start" /\ req.path = "/proxy-sw.js") =>
    \A platform \in {RequestPlatform} :
    platform.some =>
        /\ platform.v[1].some => ServiceWorkerAnswer
        /\ ~platform.v[1].some =>
               /\ pc = "done"
               /\ resp.status = 200
               /\ resp.body = [kind |-> "text", text |-> "cmux!"]
               /\ upstream = <<>>
               /\ ws = NoWs

\* C17 witness: /proxy-sw.js asked as a WebSocket upgrade carrying
\* X-Cmux-Proxied: true on a subdomain that decodes to Invalid.
C17_Witness ==
    /\ ServiceWorkerAnswer
    /\ req.path = "/proxy-sw.js"
    /\ FirstLoopValue
    /\ is_upgrade_request(req.headers)
    /\ RequestRoute.kind = "Invalid"

\* /proxy-sw.js on the apex
C17_WitnessApex ==
    /\ req.path = "/proxy-sw.js"
    /\ RequestPlatform = Some(<<None, CmuxSh>>)
    /\ resp.status = 200
    /\ resp.body = [kind |-> "text", text |-> "cmux!"]

W_morphvm == <<"m", "o", "r", "p", "h", "v", "m">>

W_39379 == <<"3", "9", "3", "7", "9">>

\* Target::Absolute { scheme: https, host, port: None }
HttpsHost(host) == [kind |-> "Absolute", scheme |-> "https", host |-> host, port |-> None]

\* the target the configuration dictates for a decoded route
ExpectedTarget ==
    IF route.kind = "Port"
    THEN IF cfg.morph_domain_suffix.some
         THEN HttpsHost(Dashed(<<W_port, PortText(route.port), W_morphvm, route.morph_id>>)
                          \o cfg.morph_domain_suffix.v)
         ELSE [kind |-> "BackendPort", port |-> route.port]
    ELSE IF route.kind = "Cmux"
    THEN IF cfg.morph_domain_suffix.some
         THEN HttpsHost(Dashed(<<W_port, W_39379, W_morphvm, route.morph_id>>)
                          \o cfg.morph_domain_suffix.v)
         ELSE [kind |-> "BackendPort", port |-> route.port]
    ELSE IF cfg.workspace_domain_suffix.some
         THEN HttpsHost(route.vm_slug \o cfg.workspace_domain_suffix.v)
         ELSE [kind |-> "BackendPort", port |-> route.port]

\* the authority an upstream URI carries for a target
ExpectedAuthority(tgt) ==
    IF tgt.kind = "Absolute" THEN tgt.host
    ELSE <<"1", "2", "7", ".", "0", ".", "0", ".", "1", ":">> \o PortText(tgt.port)

\* C18: the target of every forwarded request is the one its route and the
\* configuration dictate: with a morph suffix, https host
\* port-39379-morphvm-{morph_id}{suffix} without port for a Cmux route of any
\* port P (X-Cmux-Port-Internal still carrying P) and
\* port-{port}-morphvm-{morph_id}{suffix} for a Port route; with a workspace
\* suffix, https host {vm_slug}{suffix} for a Workspace route; BackendPort of
\* the route's port otherwise.
C18_TargetResolution ==
    target # NoTarget =>
        /\ route.kind \in ValidKinds
        /\ target = ExpectedTarget
        /\ upstream # <<>> =>
               /\ upstream[1].uri.authority = ExpectedAuthority(ExpectedTarget)
               /\ upstream[1].uri.scheme
                      = (IF ExpectedTarget.kind = "Absolute" THEN "https" ELSE "http")
               /\ route.kind = "Cmux" =>
                      ValuesOf(upstream[1].headers, "x-cmux-port-internal")
                          = <<PortText(route.port)>>

\* C18 witness: a Cmux route on port 8080 under a morph suffix, sent to the
\* port-39379 host with X-Cmux-Port-Internal: 8080.
C18_Witness ==
    /\ upstream # <<>>
    /\ route.kind = "Cmux"
    /\ route.port = 8080
    /\ cfg.morph_domain_suffix = Some(MorphSuffix)
    /\ upstream[1].uri.authority
           = Dashed(<<W_port, W_39379, W_morphvm, W_ab>>) \o MorphSuffix
    /\ Get(upstream[1].headers, "x-cmux-port-internal") = Some(W_8080)

\* a Workspace route under a workspace suffix
C18_WitnessWorkspace ==
    /\ upstream # <<>>
    /\ route.kind = "Workspace"
    /\ target = HttpsHost(W_vm \o WorkspaceSuffix)

\* a Port route under a morph suffix
C18_WitnessPort ==
    /\ upstream # <<>>
    /\ route.kind = "Port"
    /\ target.kind = "Absolute"

\* a header map carries X-Cmux-Workspace-Internal with the empty value
EmptyWorkspaceHeader(h) ==
    \E i \in 1..Len(h) : h[i][1] = "x-cmux-workspace-internal" /\ h[i][2] = <<>>

\* C21: no upstream HTTP request and no upstream WebSocket handshake carries
\* X-Cmux-Workspace-Internal with an empty value: an absent or empty scope
\* leaves the header out
C21_NoEmptyWorkspaceHeader ==
    /\ \A i \in 1..Len(upstream) : ~EmptyWorkspaceHeader(upstream[i].headers)
    /\ ws.pc \in {"bridged", "dial_failed"} => ~EmptyWorkspaceHeader(ws.dial.headers)

\* the fallback GET failed: no answer at all, a body that cannot be read, or
\* HTML the rewriter rejects
FallbackFailed ==
    \/ second = NoUpstream
    \/ ~second.readOk
    \/ (ContainsTextHtml(second.headers) /\ ~second.rewriteOk)

\* C23: when the fallback GET fails at transport level, or the transform of
\* its response errors (body read failure, HTML rewriter failure), the client
\* receives the original upstream HEAD response (405 or 501) through the
\* normal transform, never a response derived from the failed fallback
C23_FallbackFailure ==
    (pc = "done" /\ Len(upstream) = 2 /\ FallbackFailed) =>
        /\ first.status \in HeadFallbackStatuses
        /\ \A t \in {transform_response(first, behavior)} : resp = t

\* the six headers add_cors_headers sets, each once and with its fixed value
CarriesCorsSet(h) ==
    \A i \in 1..Len(add_cors_headers(<<>>)) :
        LET e == add_cors_headers(<<>>)[i] IN ValuesOf(h, e[1]) = <<e[2]>>

\* C24: every response built by the HEAD fallback carries the full CORS set
\* of add_cors_headers when behavior.strip_cors_headers is false, whatever
\* behavior.add_cors says, and none of the seven access-control-* headers
\* when strip_cors_headers is true
C24_HeadFallbackCors ==
    (pc = "done" /\ via = "head_fallback") =>
        IF behavior.strip_cors_headers THEN NoCorsHeaders
        ELSE CarriesCorsSet(resp.headers)

\* C24 witness: a HEAD-fallback response on a route whose behavior neither
\* adds nor strips CORS, built from a GET answer with its own allow-origin
C24_Witness ==
    /\ pc = "done"
    /\ via = "head_fallback"
    /\ ~behavior.add_cors
    /\ ~behavior.strip_cors_headers
    /\ Get(second.headers, "access-control-allow-origin")
           = Some(V("https://upstream.example"))
    /\ CarriesCorsSet(resp.headers)

\* C24 witness: a HEAD-fallback response on a route that strips CORS, built
\* from a GET answer that carried CORS headers
C24_WitnessStripped ==
    /\ pc = "done"
    /\ via = "head_fallback"
    /\ behavior.strip_cors_headers
    /\ HasHeader(second.headers, "access-control-allow-private-network")
    /\ NoCorsHeaders

\* out holds every entry of the header map h whose name is not dropped, every
\* value of a repeated name included, and nothing else
CopiesAll(h, out, dropped) ==
    /\ \A i \in 1..Len(h) :
           h[i][1] \notin dropped => ValuesOf(out, h[i][1]) = ValuesOf(h, h[i][1])
    /\ \A j \in 1..Len(out) :
           /\ out[j][1] \notin dropped
           /\ \E i \in 1..Len(h) : h[i] = out[j]

\* C26: sanitize_headers copies all headers: every entry of the upstream's
\* header map whose name is not a dropped payload header is in its output,
\* every value of a name that occurs more than once included (several
\* Set-Cookie entries reach the client), and the output holds nothing else
C26_SanitizeCopiesAll ==
    (pc = "done" /\ via = "transform" /\ resp.body.kind = "bytes") =>
        /\ CopiesAll(first.headers, sanitize_headers(first.headers, FALSE), {})
        /\ CopiesAll(first.headers, sanitize_headers(first.headers, TRUE),
                     UpstreamPayloadNames \cup {"content-length"})
        /\ ValuesOf(resp.headers, "set-cookie") = ValuesOf(first.headers, "set-cookie")

\* the response was produced by transform_response or build_head_response
Transformed == pc = "done" /\ via \in {"transform", "fallthrough", "head_fallback"}

\* the upstream answer the response was made from
AnswerUsed == IF via = "head_fallback" THEN second ELSE first

\* no report-only or framing header; content-security-policy exactly when the
\* behavior names a frame-ancestors value, and then that value alone
CspPrecedence ==
    /\ \A n \in {"content-security-policy-report-only", "x-frame-options",
                 "frame-options"} : ~HasHeader(resp.headers, n)
    /\ IF behavior.frame_ancestors.some
       THEN ValuesOf(resp.headers, "content-security-policy")
                = <<behavior.frame_ancestors.v>>
       ELSE ~HasHeader(resp.headers, "content-security-policy")

\* C27 as stated: every response produced by transform_response or
\* build_head_response has no content-security-policy-report-only,
\* x-frame-options or frame-options header, and has content-security-policy
\* iff behavior.frame_ancestors is set, with the injected value only
C27_Original == Transformed => CspPrecedence

\* C27 as amended: that holds for every response built by
\* build_head_response and for every response transform_response builds from
\* the upstream's headers; the error texts transform_response answers with
\* when the HTML body cannot be read or rewritten carry no
\* content-security-policy, also when behavior.frame_ancestors is set
C27_CspPrecedence ==
    /\ Relayed => CspPrecedence
    /\ (Transformed /\ ~Relayed) =>
           /\ resp.status \in {500, 502}
           /\ resp.body.kind = "text"
           /\ \A n \in {"content-security-policy", "content-security-policy-report-only",
                        "x-frame-options", "frame-options"} :
                  ~HasHeader(resp.headers, n)

\* C27 witness: an upstream answer with its own content-security-policy and
\* framing header, relayed on a route with frame_ancestors set
C27_Witness ==
    /\ Relayed
    /\ behavior.frame_ancestors.some
    /\ HasHeader(AnswerUsed.headers, "content-security-policy")
    /\ Get(AnswerUsed.headers, "content-security-policy")
           # Some(behavior.frame_ancestors.v)
    /\ \/ HasHeader(AnswerUsed.headers, "x-frame-options")
       \/ HasHeader(AnswerUsed.headers, "frame-options")
    /\ CspPrecedence

\* C27 witness: the same upstream answer relayed on a route without
\* frame_ancestors: no content-security-policy reaches the client
C27_WitnessAbsent ==
    /\ Relayed
    /\ ~behavior.frame_ancestors.some
    /\ HasHeader(AnswerUsed.headers, "content-security-policy")
    /\ HasHeader(AnswerUsed.headers, "content-security-policy-report-only")
    /\ CspPrecedence

\* C27 witness: an error text of transform_response on a route with
\* frame_ancestors set
C27_WitnessErrorText ==
    /\ Transformed
    /\ ~Relayed
    /\ behavior.frame_ancestors.some
    /\ ~HasHeader(resp.headers, "content-security-policy")

\* the request is one handle_request answers itself: /health, a missing or
\* foreign host, a platform host without subdomain (/version, "cmux!"),
\* /proxy-sw.js, an Invalid route, the loop guard, an intercepted preflight
AnsweredByProxy ==
    \/ req.path \in EarlyPaths
    \/ \A p \in {RequestPlatform} : ~p.some \/ ~p.v[1].some
    \/ \A rt \in {RequestRoute} :
           \/ rt.kind = "Invalid"
           \/ rt.kind \in ValidKinds /\ FirstLoopValue
           \/ /\ req.method = "OPTIONS"
              /\ rt.kind = "Cmux" \/ (rt.kind = "Port" /\ rt.port = 39378)

\* C29: one client request causes at most two upstream requests; the second
\* is issued only when the original method is HEAD and the first upstream
\* answer is 405 or 501, it is a GET, and whatever it is answered with, no
\* third follows; a request handle_request answers itself causes none
C29_BoundedUpstream ==
    /\ Len(upstream) <= 2
    /\ ws # NoWs => upstream = <<>>
    /\ Len(upstream) = 2 =>
           /\ req.method = "HEAD"
           /\ upstream[1].method = "HEAD"
           /\ first.status \in {405, 501}
           /\ upstream[2].method = "GET"
    /\ (upstream # <<>> \/ ws # NoWs) => ~AnsweredByProxy
    /\ (pc = "done" /\ via = "local") => (upstream = <<>> /\ ws = NoWs)

\* C29 witness: the fallback GET was itself answered 405 and the request is
\* done with two upstream requests
C29_Witness ==
    /\ pc = "done"
    /\ Len(upstream) = 2
    /\ second.status = 405
    /\ first.status = 501

\* C29 witness: an intercepted preflight answered without upstream request
C29_WitnessLocal ==
    /\ pc = "done"
    /\ via = "local"
    /\ req.method = "OPTIONS"
    /\ resp.status = 204
    /\ upstream = <<>>

----------------------------------------------------------------------------
(* Specification SpecRoute: parse_route applied to bounded subdomains *)

MaxSegs == 5

\* the labels the subdomains under test are made of
RouteTokens ==
    { <<"p", "o", "r", "t">>, <<"c", "m", "u", "x">>, <<"B", "a", "S", "E">>,
      <<"3", "9", "3", "7", "8">>, <<"+", "8", "0">>,
      <<"7", "0", "0", "0", "0">>, <<"a", "b">>, <<>> }

\* the subdomains of up to max labels
RouteInputs(max) ==
    { Dashed(segs) : segs \in UNION { [1..n -> RouteTokens] : n \in 1..max } }

MainIdle ==
    /\ req = [path |-> "/", method |-> "GET", headers |-> <<>>]
    /\ cfg = [morph_domain_suffix |-> None, workspace_domain_suffix |-> None]
    /\ pc = "idle"
    /\ route = NoRoute
    /\ behavior = NoBehavior
    /\ target = NoTarget
    /\ upstream = <<>>
    /\ first = NoUpstream
    /\ second = NoUpstream
    /\ resp = NoResp
    /\ via = "none"
    /\ ws = NoWs

InitRoute ==
    /\ psub \in RouteInputs(MaxSegs)
    /\ proute = NoRoute
    /\ MainIdle
    /\ PumpIdle
    /\ HtmlIdle
    /\ ServerIdle
    /\ HostIdle

ParseRoute ==
    /\ proute = NoRoute
    /\ proute' = parse_route(psub)
    /\ UNCHANGED <<psub, mainVars, pumpVars, htmlVars, serverVars, hostVars>>

NextRoute == ParseRoute

SpecRoute == InitRoute /\ [][NextRoute]_vars

----------------------------------------------------------------------------
(* Specification SpecPump: pump_websocket once both sides are connected.    *)
(* The two pump futures run interleaved inside select!; each step below is  *)
(* one future running from one await to the next.                           *)

MaxFrames == 2

Messages == {"m1", "m2"}

\* what a stream yields: Some(Ok(message)) or Some(Err(_)); None at its end
StreamItems == { [ok |-> TRUE, msg |-> m] : m \in Messages } \cup { [ok |-> FALSE] }

Streams == UNION { [1..n -> StreamItems] : n \in 0..MaxFrames }

InitPump ==
    /\ clientStream \in Streams
    /\ backendStream \in Streams
    /\ fromClient = <<>>
    /\ fromBackend = <<>>
    /\ toBackend = <<>>
    /\ toClient = <<>>
    /\ dirB = [pc |-> "recv"]
    /\ dirC = [pc |-> "recv"]
    /\ closedB = FALSE
    /\ closedC = FALSE
    /\ result = "running"
    /\ MainIdle
    /\ RouteIdle
    /\ HtmlIdle
    /\ ServerIdle
    /\ HostIdle

\* mutant of SinkSend: the message goes out twice
SinkSend_Twice(sent, message) == Append(Append(sent, message), message)

\* sink.send(message) accepted by the sink
SinkSend(sent, message) == Append(sent, message)

\* mutant of CloseIssued: a receive error ends the direction without a close
CloseIssued_OnlyAtEnd(after) == after.pc = "closing" /\ ~after.err

\* whether the direction calls close() on its sink in the poll in which
\* stream.next() resolved
CloseIssued(after) == after.pc = "closing"

\* what a pump future does with what stream.next() yields: hold the message
\* for sending, or call close() on its sink
AfterRecv(stream) ==
    IF stream = <<>> THEN [pc |-> "closing", err |-> FALSE]
    ELSE IF stream[1].ok THEN [pc |-> "send", msg |-> stream[1].msg]
    ELSE [pc |-> "closing", err |-> TRUE]

\* select!: the first future to finish ends the pump and drops the other
Finish(res) ==
    /\ result' = res
    /\ dirB' = [pc |-> "dropped"]
    /\ dirC' = [pc |-> "dropped"]

\* to_backend: client_stream.next().await resolves
ToBackendRecv ==
    /\ result = "running"
    /\ dirB.pc = "recv"
    /\ dirB' = AfterRecv(clientStream)
    /\ clientStream' = IF clientStream = <<>> THEN <<>> ELSE Tail(clientStream)
    /\ fromClient' = IF clientStream # <<>> /\ clientStream[1].ok
                     THEN Append(fromClient, clientStream[1].msg) ELSE fromClient
    /\ closedB' = (closedB \/ CloseIssued(AfterRecv(clientStream)))
    /\ UNCHANGED <<backendStream, fromBackend, toBackend, toClient, dirC, closedC,
                   result, mainVars, routeVars, htmlVars, serverVars, hostVars>>

\* to_backend: backend_sink.send(message).await resolves, Ok or Err
ToBackendSend ==
    /\ result = "running"
    /\ dirB.pc = "send"
    /\ \E ok \in BOOLEAN :
           IF ok
           THEN /\ toBackend' = SinkSend(toBackend, dirB.msg)
                /\ dirB' = [pc |-> "recv"]
                /\ UNCHANGED <<dirC, result>>
           ELSE /\ Finish("err")
                /\ UNCHANGED toBackend
    /\ UNCHANGED <<clientStream, backendStream, fromClient, fromBackend, toClient,
                   closedB, closedC, mainVars, routeVars, htmlVars, serverVars, hostVars>>

\* to_backend: backend_sink.close().await resolves and the future returns
ToBackendClosed ==
    /\ result = "running"
    /\ dirB.pc = "closing"
    /\ \E ok \in BOOLEAN : Finish(IF ok /\ ~dirB.err THEN "ok" ELSE "err")
    /\ UNCHANGED <<clientStream, backendStream, fromClient, fromBackend, toBackend,
                   toClient, closedB, closedC, mainVars, routeVars, htmlVars, serverVars, hostVars>>

\* to_client: backend_stream.next().await resolves
ToClientRecv ==
    /\ result = "running"
    /\ dirC.pc = "recv"
    /\ dirC' = AfterRecv(backendStream)
    /\ backendStream' = IF backendStream = <<>> THEN <<>> ELSE Tail(backendStream)
    /\ fromBackend' = IF backendStream # <<>> /\ backendStream[1].ok
                      THEN Append(fromBackend, backendStream[1].msg) ELSE fromBackend
    /\ closedC' = (closedC \/ CloseIssued(AfterRecv(backendStream)))
    /\ UNCHANGED <<clientStream, fromClient, toBackend, toClient, dirB, closedB,
                   result, mainVars, routeVars, htmlVars, serverVars, hostVars>>

\* to_client: client_sink.send(message).await resolves, Ok or Err
ToClientSend ==
    /\ result = "running"
    /\ dirC.pc = "send"
    /\ \E ok \in BOOLEAN :
           IF ok
           THEN /\ toClient' = SinkSend(toClient, dirC.msg)
                /\ dirC' = [pc |-> "recv"]
                /\ UNCHANGED <<dirB, result>>
           ELSE /\ Finish("err")
                /\ UNCHANGED toClient
    /\ UNCHANGED <<clientStream, backendStream, fromClient, fromBackend, toBackend,
                   closedB, closedC, mainVars, routeVars, htmlVars, serverVars, hostVars>>

\* to_client: client_sink.close().await resolves and the future returns
ToClientClosed ==
    /\ result = "running"
    /\ dirC.pc = "closing"
    /\ \E ok \in BOOLEAN : Finish(IF ok /\ ~dirC.err THEN "ok" ELSE "err")
    /\ UNCHANGED <<clientStream, backendStream, fromClient, fromBackend, toBackend,
                   toClient, closedB, closedC, mainVars, routeVars, htmlVars, serverVars, hostVars>>

NextPump ==
    \/ ToBackendRecv
    \/ ToBackendSend
    \/ ToBackendClosed
    \/ ToClientRecv
    \/ ToClientSend
    \/ ToClientClosed

SpecPump == InitPump /\ [][NextPump]_vars

IsPrefixOf(p, q) == Len(p) <= Len(q) /\ SubSeq(q, 1, Len(p)) = p

\* C10: at every point of every interleaving of the two pump directions, what
\* was sent into the upstream sink is a prefix of what was received from the
\* client, and what was sent into the client sink is a prefix of what was
\* received from the upstream: no reordering, duplication or alteration.
C10_FrameOrder ==
    /\ IsPrefixOf(toBackend, fromClient)
    /\ IsPrefixOf(toClient, fromBackend)

\* C10 witness: two different frames forwarded in order in each direction.
C10_Witness ==
    /\ toBackend = <<"m1", "m2">>
    /\ toClient = <<"m2", "m1">>

\* C11: once pump_websocket has returned, a close has been issued on both
\* the client sink and the upstream sink.
C11_BothSinksClosed ==
    result # "running" => (closedB /\ closedC)

\* every awaited operation of the pump task that can resolve is polled in the
\* end: the runtime wakes the task on I/O readiness
SpecPumpFair == SpecPump /\ WF_vars(NextPump)

\* the to_backend direction has just been told its stream ended or failed
ClientStreamEnded ==
    /\ dirB.pc = "recv"
    /\ dirB'.pc \notin {"recv", "send", "dropped"}

\* the to_client direction has just been told its stream ended or failed
BackendStreamEnded ==
    /\ dirC.pc = "recv"
    /\ dirC'.pc \notin {"recv", "send", "dropped"}

\* C25: in each direction, when the receive side yields end-of-stream or an
\* error while the direction is running, the direction issues a close on its
\* own send side before it terminates; once the client's stream has ended,
\* the upstream sink is closed and pump_websocket returns in the end (and
\* likewise for the upstream's stream and the client sink).
C25_ClosePropagation ==
    /\ [][(ClientStreamEnded => (closedB' /\ closedC' = closedC))
          /\ (BackendStreamEnded => (closedC' /\ closedB' = closedB))]_vars
    /\ [](dirB.pc = "closing" => closedB)
    /\ [](dirC.pc = "closing" => closedC)
    /\ (dirB.pc = "closing") ~> (closedB /\ result \in {"ok", "err"})
    /\ (dirC.pc = "closing") ~> (closedC /\ result \in {"ok", "err"})

\* C25 witness: the client's stream ended after two frames, both were
\* forwarded, the upstream sink was closed and the pump returned Ok.
C25_Witness ==
    /\ result = "ok"
    /\ closedB
    /\ ~closedC
    /\ Len(fromClient) = 2
    /\ toBackend = fromClient
    /\ clientStream = <<>>

\* C25 witness: the upstream's stream failed, the client sink was closed and
\* the pump returned the error.
C25_WitnessError ==
    /\ result = "err"
    /\ closedC
    /\ ~closedB
    /\ backendStream # <<>>
    /\ dirB.pc = "dropped"

----------------------------------------------------------------------------
(* Specification SpecForward: the request's task of Spec, on requests that  *)
(* bring their own X-Cmux-Port-Internal and X-Cmux-Workspace-Internal.      *)

InternalNames == {"x-cmux-port-internal", "x-cmux-workspace-internal"}

\* the internal headers a client supplies, in wire order
InternalChoices ==
    { <<>>,
      << <<"x-cmux-port-internal", V("22")>> >>,
      << <<"x-cmux-workspace-internal", V("admin")>> >>,
      << <<"x-cmux-port-internal", V("22")>>,
         <<"x-cmux-workspace-internal", V("admin")>>,
         <<"x-cmux-port-internal", V("6379")>> >>,
      << <<"x-cmux-proxied", V("false")>>,
         <<"x-cmux-workspace-internal", V("admin")>> >> }

ForwardHosts ==
    { [xfh |-> None, host |-> Some(h)] :
        h \in {H_PortOther, H_CmuxVscode, H_CmuxBase, H_CmuxScoped, H_Workspace} }

ForwardRequests ==
    { [path |-> p, method |-> m,
       headers |-> RequestHeaders(hc, <<>>, u, FALSE) \o internal] :
        p \in {"/health", "/index.html"}, m \in {"GET", "HEAD"}, hc \in ForwardHosts,
        u \in {"none", "full"}, internal \in InternalChoices }

InitForward ==
    /\ req \in ForwardRequests
    /\ cfg \in Configs
    /\ pc = "start"
    /\ route = NoRoute
    /\ behavior = NoBehavior
    /\ target = NoTarget
    /\ upstream = <<>>
    /\ first = NoUpstream
    /\ second = NoUpstream
    /\ resp = NoResp
    /\ via = "none"
    /\ ws = NoWs
    /\ RouteIdle
    /\ PumpIdle
    /\ HtmlIdle
    /\ ServerIdle
    /\ HostIdle

SpecForward == InitForward /\ [][Next]_vars

NotInternal(e) == e[1] \notin InternalNames

\* the internal headers of a header map: name -> values
InternalOf(h) == [name \in InternalNames |-> ValuesOf(h, name)]

NoInternal == [name \in InternalNames |-> <<>>]

OptionValues(opt) == IF opt.some THEN <<opt.v>> ELSE <<>>

\* the internal headers of the upstream request forward_request would issue
\* for request r
OutboundInternalOf(r) ==
    CHOOSE internal \in
        { InternalOf(h) :
            h \in { OutboundRequest(r, o.target, o.behavior).headers :
                      o \in {handle_request(r, cfg)} } } : TRUE

\* C14: on every upstream HTTP request, X-Cmux-Port-Internal and
\* X-Cmux-Workspace-Internal are exactly what the behavior dictates (one value,
\* or absent), equal for any two client requests that differ only in their
\* own internal headers; X-Cmux-Proxied is the single value "true" and Host
\* the single value of the upstream authority.
C14_InternalHeaders ==
    upstream # <<>> =>
        LET out == upstream[1].headers IN
        /\ ValuesOf(out, "x-cmux-port-internal") = OptionValues(behavior.port_header)
        /\ ValuesOf(out, "x-cmux-workspace-internal")
               = OptionValues(behavior.workspace_header)
        /\ \A internal \in InternalChoices :
               LET r2 == [req EXCEPT !.headers =
                              SelectSeq(req.headers, NotInternal) \o internal]
               IN  OutboundInternalOf(r2) = InternalOf(out)
        /\ ValuesOf(out, "x-cmux-proxied") = <<TrueWord>>
        /\ ValuesOf(out, "host") = <<upstream[1].uri.authority>>

\* C14 witness: a request to a Port route that brought both internal headers
\* and was sent upstream without them.
C14_Witness ==
    /\ upstream # <<>>
    /\ route.kind = "Port"
    /\ HasHeader(req.headers, "x-cmux-port-internal")
    /\ HasHeader(req.headers, "x-cmux-workspace-internal")
    /\ InternalOf(upstream[1].headers) = NoInternal

\* a request to a scoped Cmux route whose own internal headers were replaced
C14_WitnessReplaced ==
    /\ upstream # <<>>
    /\ route.kind = "Cmux"
    /\ behavior.workspace_header.some
    /\ Get(req.headers, "x-cmux-port-internal") = Some(V("22"))
    /\ Get(upstream[1].headers, "x-cmux-port-internal") = Some(to_string(route.port))

\* C30: for every request handed to forward_request, the X-Cmux-Port-Internal,
\* X-Cmux-Workspace-Internal and X-Cmux-Proxied headers on the upstream
\* WebSocket handshake are exactly those forward_request would put on the
\* upstream HTTP request for the same request, and the scope derived from
\* the host never yields a workspace header the route's behavior lacks.
C30_PathsAgree ==
    ws # NoWs =>
        /\ \A out \in {OutboundHeaders(req.headers, Authority(target), behavior)} :
               \A name \in InternalNames \cup {"x-cmux-proxied"} :
                   ValuesOf(ws.dial.headers, name) = ValuesOf(out, name)
        /\ ValuesOf(ws.dial.headers, "x-cmux-port-internal")
               = OptionValues(behavior.port_header)
        /\ ValuesOf(ws.dial.headers, "x-cmux-workspace-internal")
               = OptionValues(behavior.workspace_header)
        /\ \A derived \in {derive_workspace_scope_from_headers(req.headers)} :
               derived.some => behavior.workspace_header = derived

\* C30 witness: an upgrade request that brought internal headers of its own
\* to a route whose behavior names no workspace; the handshake has none.
C30_Witness ==
    /\ ws # NoWs
    /\ HasHeader(req.headers, "x-cmux-workspace-internal")
    /\ ~behavior.workspace_header.some
    /\ ~HasHeader(ws.dial.headers, "x-cmux-workspace-internal")

\* C30 witness: an upgrade request to a scoped Cmux route that brought
\* X-Cmux-Proxied: false and a workspace header; both are replaced.
C30_WitnessScoped ==
    /\ ws # NoWs
    /\ route.kind = "Cmux"
    /\ behavior.workspace_header.some
    /\ derive_workspace_scope_from_headers(req.headers) = behavior.workspace_header
    /\ Get(req.headers, "x-cmux-proxied") = Some(V("false"))
    /\ Get(req.headers, "x-cmux-workspace-internal") = Some(V("admin"))
    /\ ValuesOf(ws.dial.headers, "x-cmux-workspace-internal")
           = <<behavior.workspace_header.v>>
    /\ ValuesOf(ws.dial.headers, "x-cmux-proxied") = <<TrueWord>>

----------------------------------------------------------------------------
(* Specification SpecHtml: rewrite_html applied to bounded HTML bodies *)

MaxToks == 3

\* the HTML tokens the bodies under test are made of
HtmlTokens ==
    HeadOpenTags \cup MetaCspTags
    \cup {"<meta charset=\"utf-8\">", "<title>t</title>", "</head>"}

\* the bodies of up to max chunks
HtmlInputs(max) == UNION { [1..n -> HtmlTokens] : n \in 0..max }

InitHtml ==
    /\ hbytes \in HtmlInputs(MaxToks)
    /\ hskip \in BOOLEAN
    /\ hout = None
    /\ MainIdle
    /\ RouteIdle
    /\ PumpIdle
    /\ ServerIdle
    /\ HostIdle

RewriteHtml ==
    /\ hout = None
    /\ hout' = Some(rewrite_html(hbytes, hskip))
    /\ UNCHANGED <<hbytes, hskip, mainVars, routeVars, pumpVars, serverVars, hostVars>>

NextHtml == RewriteHtml

SpecHtml == InitHtml /\ [][NextHtml]_vars

NotMetaCsp(tok) == tok \notin MetaCspTags

\* C13: after rewrite_html every <head> start tag is directly followed by the
\* injected scripts (the service-worker script then the location script when
\* skip_service_worker is false, the location script alone when it is true),
\* and the output less the injected scripts is the input less its meta-CSP
\* elements.
C13_HtmlInjection ==
    hout.some =>
        LET out == hout.v
            inj == IF hskip THEN <<HEAD_SCRIPT>>
                   ELSE <<SERVICE_WORKER_SCRIPT, HEAD_SCRIPT>>
            k   == Len(inj)
            IsHead(i)   == out[i] \in HeadOpenTags
            Injected(j) == \E i \in 1..(j - 1) : IsHead(i) /\ j - i <= k
            Kept[n \in 0..Len(out)] ==
                IF n = 0 THEN <<>>
                ELSE IF Injected(n) THEN Kept[n - 1]
                ELSE Append(Kept[n - 1], out[n])
        IN  /\ \A i \in 1..Len(out) :
                   IsHead(i) => (i + k <= Len(out) /\ SubSeq(out, i + 1, i + k) = inj)
            /\ hskip => \A j \in 1..Len(out) : out[j] # SERVICE_WORKER_SCRIPT
            /\ Kept[Len(out)] = SelectSeq(hbytes, NotMetaCsp)

\* C13 witness: a body with two <head> elements and a meta-CSP, rewritten
\* with the service worker script injected.
C13_Witness ==
    /\ hout.some
    /\ ~hskip
    /\ Cardinality({i \in 1..Len(hbytes) : hbytes[i] \in HeadOpenTags}) = 2
    /\ \E i \in 1..Len(hbytes) : hbytes[i] \in MetaCspTags

\* a body rewritten with skip_service_worker set
C13_WitnessSkip ==
    /\ hout.some
    /\ hskip
    /\ \E i \in 1..Len(hbytes) : hbytes[i] \in HeadOpenTags

----------------------------------------------------------------------------
(* Specification SpecServer: the server task of spawn_proxy, its            *)
(* connections, the pump tasks handle_websocket spawns, and                 *)
(* ProxyHandle::shutdown.                                                   *)

MaxConns == 3

Conns == 1..MaxConns

InitServer ==
    /\ conns = [c \in Conns |-> "none"]
    /\ shutdown = "armed"
    /\ task = "running"
    /\ handle = "idle"
    /\ MainIdle
    /\ RouteIdle
    /\ PumpIdle
    /\ HtmlIdle
    /\ HostIdle

\* the server accepts a connection; with_graceful_shutdown polls the signal
\* before it accepts, so nothing is accepted once the signal is sent
Accept(c) ==
    /\ task = "running"
    /\ shutdown = "armed"
    /\ conns[c] = "none"
    /\ conns' = [conns EXCEPT ![c] = "serving"]
    /\ UNCHANGED <<shutdown, task, handle, mainVars, routeVars, pumpVars, htmlVars, hostVars>>

\* handle_request answers over HTTP and the connection ends
Respond(c) ==
    /\ conns[c] = "serving"
    /\ conns' = [conns EXCEPT ![c] = "closed"]
    /\ UNCHANGED <<shutdown, task, handle, mainVars, routeVars, pumpVars, htmlVars, hostVars>>

\* handle_websocket: tokio::spawn(pump_websocket(..)) with the JoinHandle
\* dropped, and the 101 returned: the connection leaves the server's hands
Upgrade(c) ==
    /\ conns[c] = "serving"
    /\ conns' = [conns EXCEPT ![c] = "bridged"]
    /\ UNCHANGED <<shutdown, task, handle, mainVars, routeVars, pumpVars, htmlVars, hostVars>>

\* a spawned pump_websocket returns
PumpReturns(c) ==
    /\ conns[c] = "bridged"
    /\ conns' = [conns EXCEPT ![c] = "closed"]
    /\ UNCHANGED <<shutdown, task, handle, mainVars, routeVars, pumpVars, htmlVars, hostVars>>

\* ProxyHandle::shutdown: tx.send(()), then self.task.await
ShutdownSend ==
    /\ handle = "idle"
    /\ shutdown' = "sent"
    /\ handle' = "awaiting"
    /\ UNCHANGED <<conns, task, mainVars, routeVars, pumpVars, htmlVars, hostVars>>

\* graceful.await resolves: the signal was received and every connection
\* the server still drives has ended
ServerTaskEnds ==
    /\ task = "running"
    /\ shutdown = "sent"
    /\ \A c \in Conns : conns[c] # "serving"
    /\ task' = "finished"
    /\ UNCHANGED <<conns, shutdown, handle, mainVars, routeVars, pumpVars, htmlVars, hostVars>>

\* self.task.await resolves and shutdown returns
ShutdownReturns ==
    /\ handle = "awaiting"
    /\ task = "finished"
    /\ handle' = "returned"
    /\ UNCHANGED <<conns, shutdown, task, mainVars, routeVars, pumpVars, htmlVars, hostVars>>

NextServer ==
    \/ \E c \in Conns : Accept(c)
    \/ \E c \in Conns : Respond(c)
    \/ \E c \in Conns : Upgrade(c)
    \/ \E c \in Conns : PumpReturns(c)
    \/ ShutdownSend
    \/ ServerTaskEnds
    \/ ShutdownReturns

SpecServer == InitServer /\ [][NextServer]_vars

\* C19: once the shutdown signal is sent no new connection is accepted, and
\* shutdown returns only when no request is still being served and no spawned
\* WebSocket pump task is still running.
C19_GracefulShutdown ==
    /\ [](handle = "returned" =>
              \A c \in Conns : conns[c] \notin {"serving", "bridged"})
    /\ [][shutdown = "sent" =>
              \A c \in Conns : conns'[c] = "serving" => conns[c] = "serving"]_vars

\* what does hold: nothing is accepted after the signal, and shutdown
\* returns only when no request is still being served over HTTP
C19_HttpDrained ==
    /\ [](handle = "returned" => \A c \in Conns : conns[c] # "serving")
    /\ [][shutdown = "sent" =>
              \A c \in Conns : conns'[c] = "serving" => conns[c] = "serving"]_vars

----------------------------------------------------------------------------
(* Claims about the route decoder (checked under SpecRoute) *)

HasDash(s) == \E i \in 1..Len(s) : s[i] = "-"

\* C3: every subdomain port-<P>-<ID>, with P a u16 and ID non-empty, decodes
\* to Route::Port with port = P, morph_id = ID (hyphens kept) and
\* skip_service_worker = (P = 39378).
C3_PortRouteDecoded ==
    proute # NoRoute =>
        \A i \in 6..Len(psub) :
            LET P  == SubSeq(psub, 6, i - 1)
                ID == SubSeq(psub, i + 1, Len(psub))
            IN  (/\ StartsWith(psub, PortPrefix)
                 /\ psub[i] = "-"
                 /\ ~HasDash(P)
                 /\ parse_u16(P).some
                 /\ ID # <<>>)
                => proute = [kind |-> "Port", port |-> parse_u16(P).v,
                             morph_id |-> ID,
                             skip_service_worker |-> (parse_u16(P).v = 39378)]

\* C3 witness: a decoded Port route for port 39378 whose morph id holds a hyphen.
C3_Witness ==
    /\ proute.kind = "Port"
    /\ proute.port = 39378
    /\ proute.skip_service_worker
    /\ HasDash(proute.morph_id)

FirstDash(s) == CHOOSE i \in 1..Len(s) : s[i] = "-" /\ \A j \in 1..(i - 1) : s[j] # "-"

LastDash(s) == CHOOSE i \in 1..Len(s) : s[i] = "-" /\ \A j \in (i + 1)..Len(s) : s[j] # "-"

\* C4: on a decoded Cmux route, workspace_header is None exactly when nothing
\* lies between <ID> and <P> or what lies there is the one segment "base"
\* (any case); otherwise it is Some of the text between them.
C4_CmuxScope ==
    (proute # NoRoute /\ proute.kind = "Cmux") =>
        LET rest  == SubSeq(psub, 6, Len(psub))
            f     == FirstDash(rest)
            l     == LastDash(rest)
            scope == SubSeq(rest, f + 1, l - 1)
        IN  proute.workspace_header =
                IF f = l \/ (~HasDash(scope) /\ to_ascii_lowercase(scope) = BaseWord)
                THEN None
                ELSE Some(scope)

\* C4 witness: a Cmux route whose scope is "base" in mixed case, decoded to None.
C4_Witness ==
    /\ proute.kind = "Cmux"
    /\ ~proute.workspace_header.some
    /\ \E i \in 1..Len(psub) : psub[i] = "B"

\* a Cmux route with a scope of several segments, kept with its hyphen
C4_WitnessMulti ==
    /\ proute.kind = "Cmux"
    /\ proute.workspace_header.some
    /\ HasDash(proute.workspace_header.v)

\* C20: a subdomain that starts with neither "port-" nor "cmux-" decodes to
\* Route::Workspace exactly when it has at least three segments, its
\* second-to-last segment parses as a u16, its last segment is non-empty and
\* the earlier segments joined with "-" are non-empty; otherwise it decodes to
\* Invalid with a 400 response.  No WorkspaceRoute has an empty workspace or
\* an empty vm_slug.
C20_WorkspaceGrammar ==
    (/\ proute # NoRoute
     /\ ~StartsWith(psub, PortPrefix)
     /\ ~StartsWith(psub, CmuxPrefix)) =>
        LET l == IF HasDash(psub) THEN LastDash(psub) ELSE 0
            head == SubSeq(psub, 1, l - 1)
            m == IF HasDash(head) THEN LastDash(head) ELSE 0
            workspace == SubSeq(head, 1, m - 1)
            port_segment == SubSeq(head, m + 1, Len(head))
            vm_slug == SubSeq(psub, l + 1, Len(psub))
            wellFormed == /\ l > 0
                          /\ m > 0
                          /\ parse_u16(port_segment).some
                          /\ vm_slug # <<>>
                          /\ workspace # <<>>
        IN  /\ wellFormed <=> proute.kind = "Workspace"
            /\ ~wellFormed => (proute.kind = "Invalid" /\ proute.resp.status = 400)
            /\ proute.kind = "Workspace" =>
                   (proute.workspace # <<>> /\ proute.vm_slug # <<>>)

\* what does hold of the fallback rule: the same, less the demand that the
\* joined workspace be non-empty
C20_WorkspaceGrammarAsCoded ==
    (/\ proute # NoRoute
     /\ ~StartsWith(psub, PortPrefix)
     /\ ~StartsWith(psub, CmuxPrefix)) =>
        LET l == IF HasDash(psub) THEN LastDash(psub) ELSE 0
            head == SubSeq(psub, 1, l - 1)
            m == IF HasDash(head) THEN LastDash(head) ELSE 0
            port_segment == SubSeq(head, m + 1, Len(head))
            vm_slug == SubSeq(psub, l + 1, Len(psub))
            wellFormed == /\ l > 0
                          /\ m > 0
                          /\ parse_u16(port_segment).some
                          /\ vm_slug # <<>>
        IN  /\ wellFormed <=> proute.kind = "Workspace"
            /\ ~wellFormed => (proute.kind = "Invalid" /\ proute.resp.status = 400)
            /\ proute.kind = "Workspace" =>
                   /\ proute.workspace = SubSeq(head, 1, m - 1)
                   /\ proute.port = parse_u16(port_segment).v
                   /\ proute.vm_slug = vm_slug

\* the text before the first hyphen of s, or s when it has none
UpToFirstDash(s) == IF HasDash(s) THEN SubSeq(s, 1, FirstDash(s) - 1) ELSE s

\* the text after the last hyphen of s, or s when it has none
FromLastDash(s) == IF HasDash(s) THEN SubSeq(s, LastDash(s) + 1, Len(s)) ELSE s

\* C22: a subdomain that begins with "port-" is decoded by the Port rule
\* alone and one that begins with "cmux-" by the Cmux rule alone: when the
\* rule fails (fewer than two segments, a port segment that is no u16, an
\* empty morph id) the route is Invalid with a 400 response, and the
\* subdomain is never read again by a later rule.
C22_PrefixCommitted ==
    proute # NoRoute =>
        /\ StartsWith(psub, PortPrefix) =>
               LET rest  == SubSeq(psub, 6, Len(psub))
                   fails == \/ ~HasDash(rest)
                            \/ ~parse_u16(UpToFirstDash(rest)).some
                            \/ FirstDash(rest) = Len(rest)
               IN  /\ proute.kind = IF fails THEN "Invalid" ELSE "Port"
                   /\ fails => proute.resp.status = 400
        /\ StartsWith(psub, CmuxPrefix) =>
               LET rest  == SubSeq(psub, 6, Len(psub))
                   fails == \/ ~HasDash(rest)
                            \/ FirstDash(rest) = 1
                            \/ ~parse_u16(FromLastDash(rest)).some
               IN  /\ proute.kind = IF fails THEN "Invalid" ELSE "Cmux"
                   /\ fails => proute.resp.status = 400

\* C22 witness: "port-..." rejected by the Port rule although the workspace
\* rule would decode the same subdomain.
C22_Witness ==
    /\ StartsWith(psub, PortPrefix)
    /\ proute.kind = "Invalid"
    /\ proute.resp.status = 400
    /\ parse_workspace_rule(psub).kind = "Workspace"

\* C22 witness: "cmux-..." rejected by the Cmux rule although the workspace
\* rule would decode the same subdomain.
C22_WitnessCmux ==
    /\ StartsWith(psub, CmuxPrefix)
    /\ proute.kind = "Invalid"
    /\ proute.resp.status = 400
    /\ parse_workspace_rule(psub).kind = "Workspace"

----------------------------------------------------------------------------
(* Specification SpecHost: parse_cmux_host on host strings *)

MaxLabels == 4

\* the labels the hosts under test are made of
HostLabels ==
    { <<"c", "m", "u", "x">>, <<"x", "c", "m", "u", "x">>, <<"s", "h">>,
      <<"l", "o", "c", "a", "l">>, <<"l", "o", "c", "a", "l", "h", "o", "s", "t">>,
      <<"a", "p", "p">>, <<"a", "b">>, <<>> }

\* the hosts of up to max labels
HostInputs(max) ==
    { Cat(labels) : labels \in UNION { [1..n -> HostLabels] : n \in 1..max } }

InitHost ==
    /\ phost \in HostInputs(MaxLabels)
    /\ pparsed = NoParse
    /\ MainIdle
    /\ RouteIdle
    /\ PumpIdle
    /\ HtmlIdle
    /\ ServerIdle

ParseHost ==
    /\ pparsed = NoParse
    /\ pparsed' = parse_cmux_host(phost)
    /\ UNCHANGED <<phost, mainVars, routeVars, pumpVars, htmlVars, serverVars>>

NextHost == ParseHost

SpecHost == InitHost /\ [][NextHost]_vars

Apexes == {CmuxSh, CmuxLocalhost, CmuxApp}

\* C28 as stated: whenever parse_cmux_host returns Some((subdomain, apex)),
\* apex is one of cmux.sh, cmux.localhost, cmux.app; subdomain is None iff
\* the host is exactly one of these; a returned subdomain is never empty.
C28_Original ==
    (pparsed # NoParse /\ pparsed.some) =>
        /\ pparsed.v[2] \in Apexes
        /\ ~pparsed.v[1].some <=> phost \in Apexes
        /\ pparsed.v[1].some => pparsed.v[1].v # <<>>

\* C28 as amended: the apex is one of the three and a returned subdomain is
\* never empty: the host is then subdomain.apex; subdomain is None iff the
\* host is an apex, the alias cmux.local (apex cmux.sh), or an apex behind a
\* single leading dot; every other host gives None.
C28_HostInvariant ==
    pparsed # NoParse =>
        /\ pparsed.some =>
               /\ pparsed.v[2] \in Apexes
               /\ ~pparsed.v[1].some <=>
                      \/ phost \in Apexes /\ pparsed.v[2] = phost
                      \/ phost = CmuxLocal /\ pparsed.v[2] = CmuxSh
                      \/ phost = <<".">> \o pparsed.v[2]
               /\ pparsed.v[1].some =>
                      /\ pparsed.v[1].v # <<>>
                      /\ phost = pparsed.v[1].v \o <<".">> \o pparsed.v[2]
        /\ ~pparsed.some =>
               /\ phost \notin Apexes \cup {CmuxLocal}
               /\ \A apex \in Apexes : ~EndsWith(phost, <<".">> \o apex)

\* C28 witness: a host with a subdomain of two labels under cmux.localhost.
C28_Witness ==
    /\ pparsed # NoParse
    /\ pparsed.some
    /\ pparsed.v[1].some
    /\ pparsed.v[2] = CmuxLocalhost
    /\ \E i \in 1..Len(pparsed.v[1].v) : pparsed.v[1].v[i] = "."

\* C28 witness: an apex behind a leading dot is taken for the apex.
C28_WitnessLeadingDot ==
    /\ pparsed # NoParse
    /\ phost = <<".">> \o CmuxApp
    /\ pparsed = Some(<<None, CmuxApp>>)

\* C28 witness: the alias cmux.local is taken for the apex cmux.sh.
C28_WitnessAlias ==
    /\ pparsed # NoParse
    /\ phost = CmuxLocal
    /\ pparsed = Some(<<None, CmuxSh>>)

====
